---- MODULE Spec2Model ----
(***************************************************************************)
(* Realtime scene-synchronisation server of dagor (server.js, newest       *)
(* revision: src/app/utils/coordinates.ts lines 928-1984).                 *)
(*                                                                         *)
(* The server is a single-threaded event loop: every socket handler runs   *)
(* to completion, so each handler is one action.  `op` records the handler *)
(* that ran last and its input, `emitted` the events and acknowledgements  *)
(* that handler sent, in order.                                            *)
(***************************************************************************)
EXTENDS Integers, Sequences, FiniteSets, TLC

VARIABLES
  connState,              \* per socket: "new" (not yet connected), "open", "closed"
  timerPending,           \* per socket: the 1 s setTimeout has not fired yet
  identificationReceived, \* per socket: closure variable of io.on('connection')
  userData,               \* per socket: closure variable userData (NoUserData = null)
  users,                  \* Map users: sequence of [key, value] in insertion order
  disconnectedUsers,      \* Map disconnectedUsers: persistentUserId -> entry
  displayModeUsers,       \* Map displayModeUsers: set of socket ids (values are userData)
  nextTokenSeq,           \* number of add-token ids generated so far
  battlemapState,         \* [order, maps, activeBattlemapId]
  nextBattlemapSeq,       \* number of randomUUID() battlemap ids generated so far
  covers,                 \* Map covers (legacy cover store): id -> cover
  nextCoverSeq,           \* number of server-generated cover ids so far
  op,                     \* the handler that ran last, with its input
  emitted,                \* what that handler emitted, in order
  process,                \* "booting", "listening" or "exited"
  storage,                \* the Supabase tables and the writes on their way to them
  clients                 \* per socket: the browser's token positions and its channels

presenceVars == <<connState, timerPending, identificationReceived, userData,
                  users, disconnectedUsers, displayModeUsers, nextTokenSeq>>
sceneVars == <<battlemapState, nextBattlemapSeq, covers, nextCoverSeq>>
vars == <<connState, timerPending, identificationReceived, userData,
          users, disconnectedUsers, displayModeUsers, nextTokenSeq,
          battlemapState, nextBattlemapSeq, covers, nextCoverSeq, op, emitted,
          process, storage, clients>>

(***************************************************************************)
(* Bounds                                                                  *)
(***************************************************************************)
MaxConns == 3          \* sockets that ever connect
MaxPids == 1           \* distinct client-chosen persistent ids
MaxTokens == 1         \* add-token commands
MaxBattlemaps == 3     \* battlemap ids ever generated (boot rows + creates)
MaxCoverIds == 1       \* distinct client-chosen cover ids
MaxGenCovers == 1      \* server-generated cover ids

Conns == 1..MaxConns

(***************************************************************************)
(* Values                                                                  *)
(***************************************************************************)
SocketId(c) == <<"sock", c>>
UserPid(k) == <<"user", k>>
TokenId(n) == <<"token", 2 * n - 1>>
PersistentTokenId(n) == <<"token", 2 * n>>
NoPid == <<"null", 0>>                    \* null / undefined / "" persistentUserId
ClientPids == {UserPid(k) : k \in 1..MaxPids}

NoUserData == [none |-> TRUE]             \* userData = null
NoImage == "null"                         \* imageSrc null / undefined / ""
Images == {"a.png"}
Colors == {"#ef4444", "#3b82f6"}          \* two of the ten getRandomColor colors
\* variant: a token without a position lands in the corner
DefaultPosition_Origin == [x |-> 0, y |-> 0]
DefaultPosition == [x |-> 50, y |-> 50]
NullPosition == [null |-> TRUE]           \* a falsy position (null / undefined)
Positions == {[x |-> 130, y |-> -5]}

getRandomColor == Colors

(***************************************************************************)
(* JavaScript Map kept as a sequence of entries in insertion order         *)
(***************************************************************************)
MapKeys(m) == {m[i].key : i \in 1..Len(m)}
MapHas(m, k) == k \in MapKeys(m)
MapIndex(m, k) == CHOOSE i \in 1..Len(m) : m[i].key = k
MapGet(m, k) == m[MapIndex(m, k)].value
MapSet(m, k, v) ==
  IF MapHas(m, k)
  THEN [m EXCEPT ![MapIndex(m, k)] = [key |-> k, value |-> v]]
  ELSE Append(m, [key |-> k, value |-> v])
MapDelete(m, k) == SelectSeq(m, LAMBDA e : e.key # k)
MapValues(m) == [i \in 1..Len(m) |-> m[i].value]

FnSet(f, k, v) == [j \in DOMAIN f \cup {k} |-> IF j = k THEN v ELSE f[j]]
FnDelete(f, k) == [j \in DOMAIN f \ {k} |-> f[j]]

(***************************************************************************)
(* Emission targets                                                        *)
(***************************************************************************)
ToSelf(c) == [kind |-> "socket", conn |-> c]        \* socket.emit / ack / targetSocket.emit
ToOthers(c) == [kind |-> "others", conn |-> c]      \* socket.broadcast.emit
ToAll == [kind |-> "all", conn |-> 0]               \* io.emit
Event(name, to, data) == [name |-> name, to |-> to, data |-> data]
CountEvents(evs, name) == Cardinality({i \in 1..Len(evs) : evs[i].name = name})

(***************************************************************************)
(* Scene store helpers                                                     *)
(***************************************************************************)
NoBattlemapId == <<"null", 0>>            \* activeBattlemapId = null
BattlemapId(n) == <<"bm", n>>
DEFAULT_BATTLEMAP_NAME == "Default Battlemap"
DEFAULT_BATTLEMAP_MAP_PATH == "/maps/default.png"
NoPath == "null"                          \* mapPath = null
\* variant: new battlemaps start at twice the scale
DEFAULT_SETTINGS_Scaled == [gridScale |-> 2, gridOffsetX |-> 0, gridOffsetY |-> 0]
DEFAULT_SETTINGS == [gridScale |-> 1, gridOffsetX |-> 0, gridOffsetY |-> 0]

\* first id in order whose battlemap has the default map path, else null
RECURSIVE FirstDefaultIn(_, _)
FirstDefaultIn(order, maps) ==
  IF order = <<>> THEN NoBattlemapId
  ELSE IF Head(order) \in DOMAIN maps
          /\ maps[Head(order)].mapPath = DEFAULT_BATTLEMAP_MAP_PATH
       THEN Head(order)
       ELSE FirstDefaultIn(Tail(order), maps)

getDefaultBattlemapId(bs) == FirstDefaultIn(bs.order, bs.maps)

\* variant: the default battlemap is not preferred
FallbackActiveId_FirstInOrder(bs) ==
  IF bs.order # <<>> THEN bs.order[1] ELSE NoBattlemapId

\* getDefaultBattlemapId() ?? battlemapState.order[0] ?? null
FallbackActiveId(bs) ==
  IF getDefaultBattlemapId(bs) # NoBattlemapId THEN getDefaultBattlemapId(bs)
  ELSE IF bs.order # <<>> THEN bs.order[1]
  ELSE NoBattlemapId

\* variant: the active id is left as it is, even when it names no battlemap
ensureActiveBattlemap_Stale(bs) == bs

ensureActiveBattlemap(bs) ==
  IF bs.activeBattlemapId # NoBattlemapId /\ bs.activeBattlemapId \in DOMAIN bs.maps
  THEN bs
  ELSE [bs EXCEPT !.activeBattlemapId = FallbackActiveId(bs)]

serializeBattlemapSummary(b) == [id |-> b.id, name |-> b.name, mapPath |-> b.mapPath]

serializeBattlemap(b) ==
  [id |-> b.id, name |-> b.name, mapPath |-> b.mapPath, gridScale |-> b.gridScale,
   gridOffsetX |-> b.gridOffsetX, gridOffsetY |-> b.gridOffsetY,
   gridData |-> b.gridData, covers |-> {b.covers[k] : k \in DOMAIN b.covers}]

BattlemapSummaries(bs) ==
  LET present == SelectSeq(bs.order, LAMBDA id : id \in DOMAIN bs.maps)
  IN [i \in 1..Len(present) |-> serializeBattlemapSummary(bs.maps[present[i]])]

sendBattlemapList(c, bs) == Event("battlemap:list", ToSelf(c), BattlemapSummaries(bs))
broadcastBattlemapList(bs) == Event("battlemap:list", ToAll, BattlemapSummaries(bs))
broadcastActiveBattlemap(bs) ==
  Event("battlemap:active", ToAll, [battlemapId |-> bs.activeBattlemapId])

(***************************************************************************)
(* Connection registry and resurrection cache                              *)
(***************************************************************************)
(***************************************************************************)
(* The browser (useSocket.ts): its token positions and its two channels    *)
(***************************************************************************)
\* storage / clients are not followed in the specifications that are about
\* the server's memory only
Unobserved == [unobserved |-> TRUE]
MaxClientMoves == 1    \* updateTokenPosition calls per browser

\* useState initial values; down holds the events on their way to the
\* browser, up the position-update messages on their way to the server
NewClient ==
  [myUserId |-> NoPid, myPosition |-> DefaultPosition, otherUsers |-> <<>>,
   down |-> <<>>, up |-> <<>>, moves |-> 0]

\* the events that change a browser's token positions
TokenEvents == {"user-connected", "all-users", "user-joined", "user-reconnected",
                "user-moved", "user-disconnected", "token-added", "token-removed"}

\* socket.emit / socket.broadcast.emit / io.emit among the open sockets
Recipients(to, open) ==
  CASE to.kind = "socket" -> {to.conn} \cap open
    [] to.kind = "others" -> open \ {to.conn}
    [] to.kind = "all" -> open

\* the events of one handler run, appended in order to the channel of each
\* socket they address; a closed socket carries nothing
Route(cl, evs) ==
  IF cl = Unobserved THEN cl
  ELSE LET open == {c \in Conns : connState'[c] = "open"}
           heard(c) == SelectSeq(evs, LAMBDA e : e.name \in TokenEvents
                                                 /\ c \in Recipients(e.to, open))
       IN [c \in Conns |->
             IF c \in open THEN [cl[c] EXCEPT !.down = @ \o heard(c)]
             ELSE [cl[c] EXCEPT !.down = <<>>, !.up = <<>>]]

\* the position-update at the head of socket c's channel is msg
Arrived(cl, c, msg) ==
  IF cl = Unobserved THEN TRUE ELSE cl[c].up # <<>> /\ Head(cl[c].up) = msg
Consumed(cl, c) ==
  IF cl = Unobserved THEN cl ELSE [cl EXCEPT ![c].up = Tail(@)]

ClientToken(data) == [position |-> data.position, persistentUserId |-> data.persistentUserId]

\* socketInstance.on("user-moved")
OnUserMoved(v, c, data) ==
  LET currentMyUserId == IF v.myUserId # NoPid THEN v.myUserId ELSE SocketId(c)
  IN IF data.userId # currentMyUserId
     THEN IF MapHas(v.otherUsers, data.userId)
          THEN [v EXCEPT !.otherUsers =
                  MapSet(@, data.userId,
                         [MapGet(@, data.userId) EXCEPT !.position = data.position])]
          ELSE v
     ELSE [v EXCEPT !.myPosition = data.position]

\* all-users: every listed user but the browser's own socket id
AllUsersMap(list, c) ==
  LET others == SelectSeq(list, LAMBDA u : u.id # SocketId(c))
  IN [i \in 1..Len(others) |-> [key |-> others[i].id, value |-> ClientToken(others[i])]]

\* the socketInstance.on(...) handlers that touch token positions
OnEvent(v, c, e) ==
  CASE e.name = "user-connected" ->
         [v EXCEPT !.myUserId = e.data.userId, !.myPosition = e.data.position]
    [] e.name = "all-users" -> [v EXCEPT !.otherUsers = AllUsersMap(e.data, c)]
    [] e.name \in {"user-joined", "user-reconnected", "token-added"} ->
         [v EXCEPT !.otherUsers = MapSet(@, e.data.userId, ClientToken(e.data))]
    [] e.name = "user-moved" -> OnUserMoved(v, c, e.data)
    [] e.name = "user-disconnected" ->
         [v EXCEPT !.otherUsers = MapDelete(@, e.data.userId)]
    [] e.name = "token-removed" ->
         LET hits == {i \in 1..Len(v.otherUsers) :
                        v.otherUsers[i].value.persistentUserId = e.data.persistentUserId}
         IN IF hits = {} THEN v
            ELSE [v EXCEPT !.otherUsers =
                    MapDelete(@, @[CHOOSE i \in hits : \A j \in hits : i <= j].key)]

\* the browser takes the next event off its channel
ClientReceive(c) ==
  /\ clients # Unobserved
  /\ connState[c] = "open"
  /\ clients[c].down # <<>>
  /\ clients' = [clients EXCEPT
                   ![c] = [OnEvent(@, c, Head(@.down)) EXCEPT !.down = Tail(clients[c].down)]]
  /\ op' = [name |-> "client-receive", conn |-> c]
  /\ emitted' = <<>>
  /\ UNCHANGED <<presenceVars, sceneVars, process, storage>>

\* updateTokenPosition(tokenId, position): the user drags a token that is on
\* the board; the browser moves it at once and tells the server
updateTokenPosition(c, tokenId, position) ==
  /\ clients # Unobserved
  /\ connState[c] = "open"
  /\ clients[c].moves < MaxClientMoves
  /\ \/ clients[c].myUserId # NoPid /\ tokenId = clients[c].myUserId
     \/ MapHas(clients[c].otherUsers, tokenId)
  /\ LET v == clients[c]
         moved == IF tokenId = v.myUserId THEN [v EXCEPT !.myPosition = position]
                  ELSE [v EXCEPT !.otherUsers =
                          MapSet(@, tokenId,
                                 [MapGet(@, tokenId) EXCEPT !.position = position])]
     IN clients' = [clients EXCEPT
                      ![c] = [moved EXCEPT
                                !.up = Append(@, [tokenId |-> tokenId,
                                                  position |-> position]),
                                !.moves = @ + 1]]
  /\ op' = [name |-> "client-move", conn |-> c]
  /\ emitted' = <<>>
  /\ UNCHANGED <<presenceVars, sceneVars, process, storage>>

\* io.on('connection'): the k-th connection gets socket id k
Connect(c) ==
  /\ process = "listening"
  /\ connState[c] = "new"
  /\ \A d \in Conns : d < c => connState[d] # "new"
  /\ connState' = [connState EXCEPT ![c] = "open"]
  /\ timerPending' = [timerPending EXCEPT ![c] = TRUE]
  /\ battlemapState' = ensureActiveBattlemap(battlemapState)   \* sendActiveBattlemap
  /\ emitted' = << sendBattlemapList(c, battlemapState),
                   Event("battlemap:active", ToSelf(c),
                         [battlemapId |-> battlemapState'.activeBattlemapId]) >>
  /\ op' = [name |-> "connection", conn |-> c]
  /\ UNCHANGED <<identificationReceived, userData, users, disconnectedUsers,
                 displayModeUsers, nextTokenSeq, nextBattlemapSeq, covers, nextCoverSeq>>
  /\ UNCHANGED <<process, storage>>
  /\ clients' = Route(clients, emitted')

\* payloads of user-identify: persistentUserId may be missing, the
\* allowBattlemapMutations flag may be missing ("absent") or a boolean
IdentifyPayloads ==
  [persistentUserId : ClientPids \cup {NoPid}, isDisplay : BOOLEAN,
   suppressPresence : BOOLEAN, allowBattlemapMutations : {"absent", "true", "false"}]
EmptyPayload ==
  [persistentUserId |-> NoPid, isDisplay |-> FALSE,
   suppressPresence |-> FALSE, allowBattlemapMutations |-> "absent"]

UserInfo(u) ==
  [userId |-> u.id, persistentUserId |-> u.persistentUserId, color |-> u.color,
   position |-> u.position, imageSrc |-> u.imageSrc]

\* variant: the cache is never consulted
IsRestored_Never(persistentUserId) == FALSE

\* the Resurrection Cache lookup of initializeUser
IsRestored(persistentUserId) ==
  persistentUserId # NoPid /\ persistentUserId \in DOMAIN disconnectedUsers

\* variant: the suppressPresence flag of the payload is ignored
SuppressPresence_Never(data) == FALSE

\* const suppressPresence = Boolean(data?.suppressPresence)
SuppressPresence(data) == data.suppressPresence

\* variant: the explicit allowBattlemapMutations flag is ignored
NewUserData_RoleOnly(c, data, color) ==
  [id |-> SocketId(c),
   persistentUserId |-> IF data.persistentUserId # NoPid THEN data.persistentUserId
                        ELSE SocketId(c),
   color |-> color,
   position |-> IF IsRestored(data.persistentUserId)
                   /\ disconnectedUsers[data.persistentUserId].position # NullPosition
                THEN disconnectedUsers[data.persistentUserId].position ELSE DefaultPosition,
   imageSrc |-> NoImage,
   isDisplay |-> data.isDisplay,
   allowBattlemapMutations |-> data.isDisplay,
   suppressPresence |-> SuppressPresence(data)]

\* the userData object initializeUser builds; color is the restored color or
\* the one getRandomColor() drew
NewUserData(c, data, color) ==
  LET persistentUserId == data.persistentUserId
      restoredUserData == disconnectedUsers[persistentUserId]
      isDisplay == data.isDisplay
  IN [id |-> SocketId(c),
      persistentUserId |-> IF persistentUserId # NoPid THEN persistentUserId
                           ELSE SocketId(c),
      color |-> color,
      position |-> IF IsRestored(persistentUserId)
                      /\ restoredUserData.position # NullPosition
                   THEN restoredUserData.position ELSE DefaultPosition,
      imageSrc |-> NoImage,
      isDisplay |-> isDisplay,
      allowBattlemapMutations |->
        IF data.allowBattlemapMutations = "absent" THEN isDisplay
        ELSE data.allowBattlemapMutations = "true",
      suppressPresence |-> SuppressPresence(data)]

\* variant: every non-display identify is announced as a join
IdentifyBroadcast_AlwaysJoined(c, ud, restored) ==
  IF ud.isDisplay THEN <<>>
  ELSE << Event("user-joined", ToOthers(c), UserInfo(ud)) >>

\* the broadcast that ends initializeUser: nothing for a display, else
\* user-joined for a new user and user-reconnected for a restored one
IdentifyBroadcast(c, ud, restored) ==
  IF ud.isDisplay THEN <<>>
  ELSE IF ~restored
  THEN << Event("user-joined", ToOthers(c), UserInfo(ud)) >>
  ELSE << Event("user-reconnected", ToOthers(c), UserInfo(ud)) >>

\* the part of initializeUser after the identificationReceived guard
initializeUserBody(c, data) ==
  LET persistentUserId == data.persistentUserId
      restored == IsRestored(persistentUserId)
      cache == IF restored THEN FnDelete(disconnectedUsers, persistentUserId)
               ELSE disconnectedUsers
  IN \E color \in (IF restored THEN {disconnectedUsers[persistentUserId].color}
                   ELSE getRandomColor) :
       LET ud == NewUserData(c, data, color)
           users1 == IF ~ud.suppressPresence /\ ~ud.isDisplay
                     THEN MapSet(users, SocketId(c), ud) ELSE users
           activeUsersList == SelectSeq(MapValues(users1), LAMBDA u : ~u.isDisplay)
       IN /\ identificationReceived' = [identificationReceived EXCEPT ![c] = TRUE]
          /\ disconnectedUsers' = cache
          /\ userData' = [userData EXCEPT ![c] = ud]
          /\ users' = users1
          /\ displayModeUsers' = IF ~ud.suppressPresence /\ ud.isDisplay
                                 THEN displayModeUsers \cup {SocketId(c)}
                                 ELSE displayModeUsers
          /\ emitted' =
               IF ud.suppressPresence THEN <<>>
               ELSE << Event("user-connected", ToSelf(c), UserInfo(ud)),
                       Event("all-users", ToSelf(c), activeUsersList) >>
                    \o (IF DOMAIN covers # {}
                        THEN << Event("all-covers", ToSelf(c),
                                      {covers[k] : k \in DOMAIN covers}) >>
                        ELSE <<>>)
                    \o (IF DOMAIN cache # {}
                        THEN << Event("disconnected-users", ToSelf(c),
                                      {cache[k] : k \in DOMAIN cache}) >>
                        ELSE <<>>)
                    \o IdentifyBroadcast(c, ud, restored)

\* variant: the double-initialization guard is missing
initializeUser_NoGuard(c, data) == initializeUserBody(c, data)

initializeUser(c, data) ==
  IF identificationReceived[c]
  THEN /\ emitted' = <<>>
       /\ UNCHANGED <<identificationReceived, userData, users, disconnectedUsers,
                      displayModeUsers>>
  ELSE initializeUserBody(c, data)

\* socket.once('user-identify', ...)
UserIdentify(c, data) ==
  /\ connState[c] = "open"
  /\ initializeUser(c, data)
  /\ op' = [name |-> "user-identify", conn |-> c,
            persistentUserId |-> data.persistentUserId]
  /\ UNCHANGED <<connState, timerPending, nextTokenSeq, sceneVars>>
  /\ UNCHANGED <<process, storage>>
  /\ clients' = Route(clients, emitted')

\* variant: the timer fires but never initializes the user
IdentifyTimeout_NoInit(c) ==
  /\ connState[c] # "new"
  /\ timerPending[c]
  /\ timerPending' = [timerPending EXCEPT ![c] = FALSE]
  /\ emitted' = <<>>
  /\ op' = [name |-> "identify-timeout", conn |-> c, persistentUserId |-> NoPid]
  /\ UNCHANGED <<connState, identificationReceived, userData, users, disconnectedUsers,
                 displayModeUsers, nextTokenSeq, sceneVars>>
  /\ UNCHANGED <<process, storage>>
  /\ clients' = Route(clients, emitted')

\* the setTimeout(..., 1000) callback; it also runs when the socket has
\* closed in the meantime
IdentifyTimeout(c) ==
  /\ connState[c] # "new"
  /\ timerPending[c]
  /\ timerPending' = [timerPending EXCEPT ![c] = FALSE]
  /\ initializeUser(c, EmptyPayload)
  /\ op' = [name |-> "identify-timeout", conn |-> c, persistentUserId |-> NoPid]
  /\ UNCHANGED <<connState, nextTokenSeq, sceneVars>>
  /\ UNCHANGED <<process, storage>>
  /\ clients' = Route(clients, emitted')

\* variant: the cache entry forgets the token image
DisconnectedUserData_NoImage(user) ==
  [id |-> user.persistentUserId, persistentUserId |-> user.persistentUserId,
   color |-> user.color, position |-> user.position, imageSrc |-> NoImage]

\* the Resurrection Cache entry the disconnect handler builds
DisconnectedUserData(user) ==
  [id |-> user.persistentUserId, persistentUserId |-> user.persistentUserId,
   color |-> user.color, position |-> user.position, imageSrc |-> user.imageSrc]

\* socket.on('disconnect')
Disconnect(c) ==
  /\ connState[c] = "open"
  /\ connState' = [connState EXCEPT ![c] = "closed"]
  /\ IF MapHas(users, SocketId(c))
     THEN LET user == MapGet(users, SocketId(c))
              persistentId == user.persistentUserId
              disconnectedUserData == DisconnectedUserData(user)
          IN /\ disconnectedUsers' = FnSet(disconnectedUsers, persistentId,
                                           disconnectedUserData)
             /\ users' = MapDelete(users, SocketId(c))
             /\ emitted' = << Event("user-disconnected", ToOthers(c),
                                [userId |-> SocketId(c), persistentUserId |-> persistentId,
                                 color |-> user.color, position |-> user.position,
                                 imageSrc |-> user.imageSrc]) >>
             /\ UNCHANGED displayModeUsers
     ELSE /\ displayModeUsers' = displayModeUsers \ {SocketId(c)}
          /\ emitted' = <<>>
          /\ UNCHANGED <<users, disconnectedUsers>>
  /\ userData' = [userData EXCEPT ![c] = NoUserData]
  /\ op' = [name |-> "disconnect", conn |-> c]
  /\ UNCHANGED <<timerPending, identificationReceived, nextTokenSeq, sceneVars>>
  /\ UNCHANGED <<process, storage>>
  /\ clients' = Route(clients, emitted')

(***************************************************************************)
(* Token commands                                                          *)
(***************************************************************************)
\* the object stored under a socket id in users is that socket's userData
\* object, so a write through users is visible through userData
SyncUserData(ud, key, value) ==
  [c \in Conns |-> IF key = SocketId(c) THEN value ELSE ud[c]]

\* variant: a position update for the sender's own id writes the sender's
\* userData back into the registry when the entry is gone
PositionUpdate_Upsert(c, tokenId, position) ==
  /\ connState[c] = "open"
  /\ Arrived(clients, c, [tokenId |-> tokenId, position |-> position])
  /\ tokenId # NoPid => position # NullPosition
  /\ LET targetUserId == IF tokenId # NoPid THEN tokenId ELSE SocketId(c)
         known == MapHas(users, targetUserId)
         own == targetUserId = SocketId(c) /\ userData[c] # NoUserData
     IN IF known \/ own
        THEN LET targetUser == [(IF known THEN MapGet(users, targetUserId) ELSE userData[c])
                                  EXCEPT !.position = position]
             IN /\ users' = MapSet(users, targetUserId, targetUser)
                /\ userData' = SyncUserData(userData, targetUserId, targetUser)
                /\ emitted' = << Event("user-moved", ToOthers(c),
                                       [userId |-> targetUserId, position |-> position]) >>
        ELSE /\ emitted' = <<>>
             /\ UNCHANGED <<users, userData>>
  /\ op' = [name |-> "position-update", conn |-> c]
  /\ UNCHANGED <<connState, timerPending, identificationReceived, disconnectedUsers,
                 displayModeUsers, nextTokenSeq, sceneVars>>
  /\ UNCHANGED <<process, storage>>
  /\ clients' = Route(Consumed(clients, c), emitted')

\* socket.on('position-update'); tokenId = NoPid stands for the old format
\* (the payload is the position itself)
PositionUpdate(c, tokenId, position) ==
  /\ connState[c] = "open"
  /\ Arrived(clients, c, [tokenId |-> tokenId, position |-> position])
  /\ tokenId # NoPid => position # NullPosition
  /\ LET targetUserId == IF tokenId # NoPid THEN tokenId ELSE SocketId(c)
     IN IF MapHas(users, targetUserId)
        THEN LET targetUser == [MapGet(users, targetUserId) EXCEPT !.position = position]
             IN /\ users' = MapSet(users, targetUserId, targetUser)
                /\ userData' = SyncUserData(userData, targetUserId, targetUser)
                /\ emitted' = << Event("user-moved", ToOthers(c),
                                       [userId |-> targetUserId, position |-> position]) >>
        ELSE /\ emitted' = <<>>
             /\ UNCHANGED <<users, userData>>
  /\ op' = [name |-> "position-update", conn |-> c]
  /\ UNCHANGED <<connState, timerPending, identificationReceived, disconnectedUsers,
                 displayModeUsers, nextTokenSeq, sceneVars>>
  /\ UNCHANGED <<process, storage>>
  /\ clients' = Route(Consumed(clients, c), emitted')

\* socket.on('token-image-update')
TokenImageUpdate(c, tokenId, imageSrc) ==
  /\ connState[c] = "open"
  /\ IF tokenId # NoPid /\ MapHas(users, tokenId)
     THEN LET targetUser == [MapGet(users, tokenId) EXCEPT !.imageSrc = imageSrc]
          IN /\ users' = MapSet(users, tokenId, targetUser)
             /\ userData' = SyncUserData(userData, tokenId, targetUser)
             /\ emitted' = << Event("token-image-updated", ToAll,
                                    [userId |-> tokenId, imageSrc |-> imageSrc]) >>
     ELSE /\ emitted' = <<>>
          /\ UNCHANGED <<users, userData>>
  /\ op' = [name |-> "token-image-update", conn |-> c]
  /\ UNCHANGED <<connState, timerPending, identificationReceived, disconnectedUsers,
                 displayModeUsers, nextTokenSeq, sceneVars>>
  /\ UNCHANGED <<process, storage>>
  /\ clients' = Route(clients, emitted')

\* variant: the removal gate asks for mutation authority instead
isDisplayUser_ByAuthority(c) ==
  userData[c] # NoUserData /\ userData[c].allowBattlemapMutations

\* variant: the removal gate lets every identified connection through
isDisplayUser_AnyIdentified(c) == userData[c] # NoUserData

\* const isDisplayUser = displayModeUsers.has(userId)
isDisplayUser(c) == SocketId(c) \in displayModeUsers

\* index of the first users entry (insertion order) carrying pid, 0 if none:
\* the for-of loop of remove-token stops at its first match (break)
FirstMatch(m, pid) ==
  LET hits == {i \in 1..Len(m) : m[i].value.persistentUserId = pid}
  IN IF hits = {} THEN 0 ELSE CHOOSE i \in hits : \A j \in hits : i <= j

\* socket.on('remove-token')
RemoveToken(c, persistentUserId) ==
  /\ connState[c] = "open"
  /\ IF isDisplayUser(c) /\ persistentUserId # NoPid
     THEN LET i == FirstMatch(users, persistentUserId)
              activeUserId == users[i].key
              notify == IF i # 0 /\ activeUserId[1] = "sock"
                           /\ connState[activeUserId[2]] = "open"
                        THEN << Event("token-removed", ToSelf(activeUserId[2]),
                                      [persistentUserId |-> persistentUserId]) >>
                        ELSE <<>>
          IN /\ disconnectedUsers' =
                  IF persistentUserId \in DOMAIN disconnectedUsers
                  THEN FnDelete(disconnectedUsers, persistentUserId)
                  ELSE disconnectedUsers
             /\ users' = IF i # 0 THEN MapDelete(users, activeUserId) ELSE users
             /\ emitted' = notify \o << Event("token-removed", ToAll,
                                              [persistentUserId |-> persistentUserId]) >>
     ELSE /\ emitted' = <<>>
          /\ UNCHANGED <<users, disconnectedUsers>>
  /\ op' = [name |-> "remove-token", conn |-> c, persistentUserId |-> persistentUserId]
  /\ UNCHANGED <<connState, timerPending, identificationReceived, userData,
                 displayModeUsers, nextTokenSeq, sceneVars>>
  /\ UNCHANGED <<process, storage>>
  /\ clients' = Route(clients, emitted')

\* socket.on('add-token'); color = "" and position = NullPosition stand for
\* a missing field
AddToken(c, color, position) ==
  /\ connState[c] = "open"
  /\ nextTokenSeq < MaxTokens
  /\ nextTokenSeq' = nextTokenSeq + 1
  /\ \E fallbackColor \in getRandomColor :
       LET tokenId == TokenId(nextTokenSeq + 1)
           persistentTokenId == PersistentTokenId(nextTokenSeq + 1)
           tokenData == [id |-> tokenId, persistentUserId |-> persistentTokenId,
                         color |-> IF color # "" THEN color ELSE fallbackColor,
                         position |-> IF position # NullPosition THEN position
                                      ELSE DefaultPosition,
                         imageSrc |-> NoImage, isDisplay |-> FALSE]
       IN /\ users' = MapSet(users, tokenId, tokenData)
          /\ emitted' = << Event("token-added", ToAll,
                                 [userId |-> tokenId, persistentUserId |-> persistentTokenId,
                                  color |-> tokenData.color,
                                  position |-> tokenData.position]) >>
  /\ op' = [name |-> "add-token", conn |-> c]
  /\ UNCHANGED <<connState, timerPending, identificationReceived, userData,
                 disconnectedUsers, displayModeUsers, sceneVars>>
  /\ UNCHANGED <<process, storage>>
  /\ clients' = Route(clients, emitted')

(***************************************************************************)
(* Scene store: sanitizers                                                 *)
(***************************************************************************)
Absent == -998          \* a payload field that is missing
NotNumber == -999       \* a payload field whose typeof is not 'number'
IsNumber(v) == v # Absent /\ v # NotNumber
PercentMax == 100

Min(a, b) == IF a < b THEN a ELSE b
Max(a, b) == IF a > b THEN a ELSE b
clampValue(value, min, max) == Min(Max(value, min), max)
clamp(value, min, max) == Min(Max(value, min), max)

\* String.prototype.trim on the strings the model sends
Trim(str) ==
  CASE str = "  " -> ""
    [] str = " Cave " -> "Cave"
    [] str = " /maps/b.png " -> "/maps/b.png"
    [] OTHER -> str

DefaultCoverColor == "#808080"
NoColor == "absent"                       \* color field missing / not a string
IsNonEmptyColor(col) == col # NoColor /\ Trim(col) # ""

\* variant: x and y are clamped to the whole board, whatever the size
sanitizeCover_WholeBoard(input) ==
  [id |-> input.id,
   width |-> clampValue(IF IsNumber(input.width) THEN input.width ELSE 0, 0, PercentMax),
   height |-> clampValue(IF IsNumber(input.height) THEN input.height ELSE 0, 0, PercentMax),
   x |-> clampValue(IF IsNumber(input.x) THEN input.x ELSE 0, 0, PercentMax),
   y |-> clampValue(IF IsNumber(input.y) THEN input.y ELSE 0, 0, PercentMax),
   color |-> IF IsNonEmptyColor(input.color) THEN input.color ELSE DefaultCoverColor]

sanitizeCover(input) ==
  LET width == clampValue(IF IsNumber(input.width) THEN input.width ELSE 0, 0, PercentMax)
      height == clampValue(IF IsNumber(input.height) THEN input.height ELSE 0, 0, PercentMax)
      maxX == PercentMax - width
      maxY == PercentMax - height
  IN [id |-> input.id, width |-> width, height |-> height,
      x |-> clampValue(IF IsNumber(input.x) THEN input.x ELSE 0, 0, maxX),
      y |-> clampValue(IF IsNumber(input.y) THEN input.y ELSE 0, 0, maxY),
      color |-> IF IsNonEmptyColor(input.color) THEN input.color ELSE DefaultCoverColor]

\* createDefaultGridData() of lib/defaultBattlemap.js
createDefaultGridData ==
  [verticalLines |-> <<0, 50>>, horizontalLines |-> <<0, 50>>,
   imageWidth |-> 100, imageHeight |-> 100]
DEFAULT_BATTLEMAP_GRID_DATA == createDefaultGridData
NoGridData == [null |-> TRUE]             \* a missing or non-object grid payload

\* variant: the line arrays of the payload are copied as they come, empty or
\* not
sanitizeGridData_KeepEmptyLines(input) ==
  LET fallback == createDefaultGridData
  IN IF input = NoGridData THEN fallback
     ELSE [verticalLines |-> input.verticalLines,
           horizontalLines |-> input.horizontalLines,
           imageWidth |-> IF IsNumber(input.imageWidth) /\ input.imageWidth > 0
                          THEN input.imageWidth ELSE fallback.imageWidth,
           imageHeight |-> IF IsNumber(input.imageHeight) /\ input.imageHeight > 0
                           THEN input.imageHeight ELSE fallback.imageHeight]

\* a lines field that is not an array is written <<>>, a non-numeric or
\* missing image dimension NotNumber
sanitizeGridData(input) ==
  LET fallback == createDefaultGridData
  IN IF input = NoGridData THEN fallback
     ELSE [verticalLines |-> IF Len(input.verticalLines) > 0 THEN input.verticalLines
                             ELSE fallback.verticalLines,
           horizontalLines |-> IF Len(input.horizontalLines) > 0 THEN input.horizontalLines
                               ELSE fallback.horizontalLines,
           imageWidth |-> IF IsNumber(input.imageWidth) /\ input.imageWidth > 0
                          THEN input.imageWidth ELSE fallback.imageWidth,
           imageHeight |-> IF IsNumber(input.imageHeight) /\ input.imageHeight > 0
                           THEN input.imageHeight ELSE fallback.imageHeight]

cloneGridData == sanitizeGridData(DEFAULT_BATTLEMAP_GRID_DATA)

NoString == "absent"                      \* a name / mapPath field that is not a string
\* typeof v === 'string' && v.trim() !== '' ? v.trim() : fallback
TrimmedOr(str, fallback) ==
  IF str # NoString /\ Trim(str) # "" THEN Trim(str) ELSE fallback

(***************************************************************************)
(* Scene store: commands                                                   *)
(***************************************************************************)
CoverId(k) == <<"cover", k>>
GeneratedCoverId(n) == <<"cover-gen", n>>       \* generateCoverId()
NoCoverId == <<"null", 0>>                      \* cover id missing / not a string

\* respond(ack, payload): only when the client passed a callback
respond(c, ack, payload) == IF ack THEN << Event("ack", ToSelf(c), payload) >> ELSE <<>>

\* "" when the battlemap exists, else the error getBattlemapOrRespond answers
getBattlemapOrRespond(battlemapId) ==
  IF battlemapId = NoBattlemapId THEN "invalid-battlemap-id"
  ELSE IF battlemapId \notin DOMAIN battlemapState.maps THEN "battlemap-not-found"
  ELSE ""

\* variant: the gate lets every identified connection through
ensureBattlemapMutator_AnyIdentified(c) == userData[c] # NoUserData

ensureBattlemapMutator(c) ==
  userData[c] # NoUserData /\ userData[c].allowBattlemapMutations

Forbidden(c, ack) == respond(c, ack, [ok |-> FALSE, error |-> "forbidden"])
\* variant: a failed lookup is never answered
Failed_Unanswered(c, ack, error) == <<>>
Failed(c, ack, error) == respond(c, ack, [ok |-> FALSE, error |-> error])

\* variant: the broadcast is serialized from the store as it was before the
\* handler ran
emitBattlemapUpdate_Stale(bs, battlemapId) ==
  IF battlemapId \in DOMAIN battlemapState.maps
  THEN << Event("battlemap:updated", ToAll, serializeBattlemap(battlemapState.maps[battlemapId])) >>
  ELSE <<>>

emitBattlemapUpdate(bs, battlemapId) ==
  IF battlemapId \in DOMAIN bs.maps
  THEN << Event("battlemap:updated", ToAll, serializeBattlemap(bs.maps[battlemapId])) >>
  ELSE <<>>

emitBattlemapDeleted(battlemapId) ==
  Event("battlemap:deleted", ToAll, [battlemapId |-> battlemapId])

SetBattlemap(bs, b) == [bs EXCEPT !.maps = FnSet(bs.maps, b.id, b)]

(***************************************************************************)
(* Write-behind persistence                                                *)
(***************************************************************************)
MaxPendingWrites == 2  \* background writes scheduled or in flight at a time
NoRow == [null |-> TRUE]

\* the columns insertBattlemapRow and updateBattlemapRow write
BattlemapRow(b) ==
  [id |-> b.id, name |-> b.name, map_path |-> b.mapPath, grid_scale |-> b.gridScale,
   grid_offset_x |-> b.gridOffsetX, grid_offset_y |-> b.gridOffsetY,
   grid_data |-> b.gridData]

\* the columns upsertCoverRow writes
CoverRow(battlemapId, cover) ==
  [id |-> cover.id, battlemap_id |-> battlemapId, x |-> cover.x, y |-> cover.y,
   width |-> cover.width, height |-> cover.height, color |-> cover.color]

\* a closure handed to runBackgroundTask, or a request sent to Supabase
Task(kind, battlemapId, coverId, row) ==
  [kind |-> kind, battlemapId |-> battlemapId, coverId |-> coverId, row |-> row]

\* the closure of an insert holds the battlemap object itself: what it will
\* write follows the object for as long as the store holds the object
FollowObjects(scheduled, bs) ==
  [i \in 1..Len(scheduled) |->
     IF scheduled[i].kind = "insertBattlemapRow"
        /\ scheduled[i].battlemapId \in DOMAIN bs.maps
     THEN [scheduled[i] EXCEPT !.row = BattlemapRow(bs.maps[scheduled[i].battlemapId])]
     ELSE scheduled[i]]

PendingWrites(st) == Len(st.scheduled) + Len(st.inflight)

\* variant: the write is started inside the handler
runBackgroundTask_Synchronous(task) ==
  IF storage = Unobserved THEN UNCHANGED storage
  ELSE /\ PendingWrites(storage) < MaxPendingWrites
       /\ storage' = [storage EXCEPT
                        !.scheduled = FollowObjects(@, battlemapState'),
                        !.inflight =
                          Append(@, IF task.kind = "deleteBattlemap"
                                    THEN [task EXCEPT !.kind = "deleteCoversForBattlemap"]
                                    ELSE IF task.kind = "updateBattlemapRow"
                                    THEN [task EXCEPT !.row =
                                            BattlemapRow(battlemapState'.maps[task.battlemapId])]
                                    ELSE task)]

\* runBackgroundTask(description, task): setImmediate queues the closure, it
\* runs on a later turn of the event loop
runBackgroundTask(task) ==
  IF storage = Unobserved THEN UNCHANGED storage
  ELSE /\ PendingWrites(storage) < MaxPendingWrites
       /\ storage' = [storage EXCEPT
                        !.scheduled = Append(FollowObjects(@, battlemapState'), task)]

\* a command that changes nothing outside the scene store
SceneCommand(c, opRecord) ==
  /\ connState[c] = "open"
  /\ op' = opRecord
  /\ UNCHANGED <<presenceVars, process, clients>>

\* variant: the new battlemap goes to the front of the order
BattlemapCreate_Unshift(c, ack, name, mapPath) ==
  /\ SceneCommand(c, [name |-> "battlemap:create", conn |-> c, ack |-> ack])
  /\ IF ~ensureBattlemapMutator(c)
     THEN emitted' = Forbidden(c, ack) /\ UNCHANGED <<sceneVars, storage>>
     ELSE /\ nextBattlemapSeq < MaxBattlemaps
          /\ nextBattlemapSeq' = nextBattlemapSeq + 1
          /\ LET battlemapId == BattlemapId(nextBattlemapSeq + 1)
                 newBattlemap ==
                   [id |-> battlemapId,
                    name |-> TrimmedOr(name, "Untitled Battlemap"),
                    mapPath |-> TrimmedOr(mapPath, NoPath),
                    gridScale |-> DEFAULT_SETTINGS.gridScale,
                    gridOffsetX |-> DEFAULT_SETTINGS.gridOffsetX,
                    gridOffsetY |-> DEFAULT_SETTINGS.gridOffsetY,
                    gridData |-> cloneGridData,
                    covers |-> <<>>]
                 bs1 == [battlemapState EXCEPT
                           !.order = << battlemapId >> \o @,
                           !.maps = FnSet(@, battlemapId, newBattlemap)]
                 bs2 == IF bs1.activeBattlemapId = NoBattlemapId
                        THEN [bs1 EXCEPT !.activeBattlemapId = battlemapId]
                        ELSE bs1
             IN /\ battlemapState' = bs2
                /\ emitted' = respond(c, ack, [ok |-> TRUE, battlemapId |-> battlemapId])
                              \o << broadcastBattlemapList(bs1) >>
                              \o (IF bs1.activeBattlemapId = NoBattlemapId
                                  THEN << broadcastActiveBattlemap(bs2) >> ELSE <<>>)
                              \o emitBattlemapUpdate(bs2, battlemapId)
                /\ runBackgroundTask(Task("insertBattlemapRow", battlemapId, NoCoverId,
                                          BattlemapRow(newBattlemap)))
          /\ UNCHANGED <<covers, nextCoverSeq>>

\* socket.on('battlemap:create')
BattlemapCreate(c, ack, name, mapPath) ==
  /\ SceneCommand(c, [name |-> "battlemap:create", conn |-> c, ack |-> ack])
  /\ IF ~ensureBattlemapMutator(c)
     THEN emitted' = Forbidden(c, ack) /\ UNCHANGED <<sceneVars, storage>>
     ELSE /\ nextBattlemapSeq < MaxBattlemaps
          /\ nextBattlemapSeq' = nextBattlemapSeq + 1
          /\ LET battlemapId == BattlemapId(nextBattlemapSeq + 1)
                 newBattlemap ==
                   [id |-> battlemapId,
                    name |-> TrimmedOr(name, "Untitled Battlemap"),
                    mapPath |-> TrimmedOr(mapPath, NoPath),
                    gridScale |-> DEFAULT_SETTINGS.gridScale,
                    gridOffsetX |-> DEFAULT_SETTINGS.gridOffsetX,
                    gridOffsetY |-> DEFAULT_SETTINGS.gridOffsetY,
                    gridData |-> cloneGridData,
                    covers |-> <<>>]
                 bs1 == [battlemapState EXCEPT
                           !.order = Append(@, battlemapId),
                           !.maps = FnSet(@, battlemapId, newBattlemap)]
                 bs2 == IF bs1.activeBattlemapId = NoBattlemapId
                        THEN [bs1 EXCEPT !.activeBattlemapId = battlemapId]
                        ELSE bs1
             IN /\ battlemapState' = bs2
                /\ emitted' = respond(c, ack, [ok |-> TRUE, battlemapId |-> battlemapId])
                              \o << broadcastBattlemapList(bs1) >>
                              \o (IF bs1.activeBattlemapId = NoBattlemapId
                                  THEN << broadcastActiveBattlemap(bs2) >> ELSE <<>>)
                              \o emitBattlemapUpdate(bs2, battlemapId)
                /\ runBackgroundTask(Task("insertBattlemapRow", battlemapId, NoCoverId,
                                          BattlemapRow(newBattlemap)))
          /\ UNCHANGED <<covers, nextCoverSeq>>

\* variant: battlemap:active is broadcast even when the id is already active
BattlemapSetActive_AlwaysBroadcast(c, ack, battlemapId) ==
  /\ SceneCommand(c, [name |-> "battlemap:set-active", conn |-> c, ack |-> ack])
  /\ IF ~ensureBattlemapMutator(c)
     THEN emitted' = Forbidden(c, ack) /\ UNCHANGED <<sceneVars, storage>>
     ELSE IF battlemapId = NoBattlemapId \/ battlemapId \notin DOMAIN battlemapState.maps
     THEN emitted' = Failed(c, ack, "battlemap-not-found") /\ UNCHANGED <<sceneVars, storage>>
     ELSE LET bs1 == [battlemapState EXCEPT !.activeBattlemapId = battlemapId]
          IN /\ battlemapState' = bs1
             /\ emitted' = << broadcastActiveBattlemap(bs1) >> \o respond(c, ack, [ok |-> TRUE])
             /\ UNCHANGED <<nextBattlemapSeq, covers, nextCoverSeq, storage>>

\* socket.on('battlemap:set-active')
BattlemapSetActive(c, ack, battlemapId) ==
  /\ SceneCommand(c, [name |-> "battlemap:set-active", conn |-> c, ack |-> ack])
  /\ IF ~ensureBattlemapMutator(c)
     THEN emitted' = Forbidden(c, ack) /\ UNCHANGED <<sceneVars, storage>>
     ELSE IF battlemapId = NoBattlemapId \/ battlemapId \notin DOMAIN battlemapState.maps
     THEN emitted' = Failed(c, ack, "battlemap-not-found") /\ UNCHANGED <<sceneVars, storage>>
     ELSE LET bs1 == [battlemapState EXCEPT !.activeBattlemapId = battlemapId]
          IN /\ battlemapState' = bs1
             /\ emitted' = (IF battlemapState.activeBattlemapId # battlemapId
                            THEN << broadcastActiveBattlemap(bs1) >> ELSE <<>>)
                           \o respond(c, ack, [ok |-> TRUE])
             /\ UNCHANGED <<nextBattlemapSeq, covers, nextCoverSeq, storage>>

\* the shape shared by rename / update-map-path / update-settings /
\* update-grid-data: gate, lookup, change one battlemap, respond, broadcast.
\* changed is the battlemap after the change; it is read only once the
\* lookup has succeeded
BattlemapUpdate(c, ack, opName, battlemapId, changed, withList) ==
  /\ SceneCommand(c, [name |-> opName, conn |-> c, ack |-> ack])
  /\ IF ~ensureBattlemapMutator(c)
     THEN emitted' = Forbidden(c, ack) /\ UNCHANGED <<sceneVars, storage>>
     ELSE IF getBattlemapOrRespond(battlemapId) # ""
     THEN /\ emitted' = Failed(c, ack, getBattlemapOrRespond(battlemapId))
          /\ UNCHANGED <<sceneVars, storage>>
     ELSE LET bs1 == SetBattlemap(battlemapState, changed)
          IN /\ battlemapState' = bs1
             /\ emitted' = respond(c, ack, [ok |-> TRUE])
                           \o (IF withList THEN << broadcastBattlemapList(bs1) >> ELSE <<>>)
                           \o emitBattlemapUpdate(bs1, battlemapId)
             /\ runBackgroundTask(Task("updateBattlemapRow", battlemapId, NoCoverId, NoRow))
             /\ UNCHANGED <<nextBattlemapSeq, covers, nextCoverSeq>>

\* socket.on('battlemap:rename')
BattlemapRename(c, ack, battlemapId, name) ==
  BattlemapUpdate(c, ack, "battlemap:rename", battlemapId,
                  [battlemapState.maps[battlemapId] EXCEPT
                     !.name = TrimmedOr(name, "Untitled Battlemap")],
                  TRUE)

\* variant: the new map keeps the grid of the old one
BattlemapUpdateMapPath_KeepGrid(c, ack, battlemapId, mapPath) ==
  BattlemapUpdate(c, ack, "battlemap:update-map-path", battlemapId,
                  [battlemapState.maps[battlemapId] EXCEPT
                     !.mapPath = TrimmedOr(mapPath, NoPath)],
                  TRUE)

\* socket.on('battlemap:update-map-path')
BattlemapUpdateMapPath(c, ack, battlemapId, mapPath) ==
  BattlemapUpdate(c, ack, "battlemap:update-map-path", battlemapId,
                  [battlemapState.maps[battlemapId] EXCEPT
                     !.mapPath = TrimmedOr(mapPath, NoPath),
                     !.gridData = cloneGridData],
                  TRUE)

\* socket.on('battlemap:update-settings'); Absent / NotNumber also stand for
\* a non-finite number
BattlemapUpdateSettings(c, ack, battlemapId, gridScale, gridOffsetX, gridOffsetY) ==
  BattlemapUpdate(c, ack, "battlemap:update-settings", battlemapId,
                  [battlemapState.maps[battlemapId] EXCEPT
                     !.gridScale = IF IsNumber(gridScale) THEN gridScale ELSE @,
                     !.gridOffsetX = IF IsNumber(gridOffsetX) THEN gridOffsetX ELSE @,
                     !.gridOffsetY = IF IsNumber(gridOffsetY) THEN gridOffsetY ELSE @],
                  FALSE)

\* socket.on('battlemap:update-grid-data')
BattlemapUpdateGridData(c, ack, battlemapId, gridData) ==
  BattlemapUpdate(c, ack, "battlemap:update-grid-data", battlemapId,
                  [battlemapState.maps[battlemapId] EXCEPT
                     !.gridData = sanitizeGridData(gridData)],
                  FALSE)

\* socket.on('battlemap:delete')
BattlemapDelete(c, ack, battlemapId) ==
  /\ SceneCommand(c, [name |-> "battlemap:delete", conn |-> c, ack |-> ack])
  /\ IF ~ensureBattlemapMutator(c)
     THEN emitted' = Forbidden(c, ack) /\ UNCHANGED <<sceneVars, storage>>
     ELSE IF getBattlemapOrRespond(battlemapId) # ""
     THEN /\ emitted' = Failed(c, ack, getBattlemapOrRespond(battlemapId))
          /\ UNCHANGED <<sceneVars, storage>>
     ELSE LET bs1 == [battlemapState EXCEPT
                        !.maps = FnDelete(@, battlemapId),
                        !.order = SelectSeq(@, LAMBDA id : id # battlemapId)]
              wasActive == battlemapState.activeBattlemapId = battlemapId
              bs2 == IF wasActive THEN ensureActiveBattlemap(bs1) ELSE bs1
          IN /\ battlemapState' = bs2
             /\ emitted' = respond(c, ack, [ok |-> TRUE])
                           \o << broadcastBattlemapList(bs1), emitBattlemapDeleted(battlemapId) >>
                           \o (IF wasActive THEN << broadcastActiveBattlemap(bs2) >> ELSE <<>>)
             /\ runBackgroundTask(Task("deleteBattlemap", battlemapId, NoCoverId, NoRow))
             /\ UNCHANGED <<nextBattlemapSeq, covers, nextCoverSeq>>

\* { ...existing, ...updates }: a field the payload does not carry keeps the
\* existing value
Overlay(existing, updates) ==
  [id |-> IF "id" \in DOMAIN updates /\ updates.id # NoCoverId THEN updates.id
          ELSE existing.id,
   x |-> IF updates.x = Absent THEN existing.x ELSE updates.x,
   y |-> IF updates.y = Absent THEN existing.y ELSE updates.y,
   width |-> IF updates.width = Absent THEN existing.width ELSE updates.width,
   height |-> IF updates.height = Absent THEN existing.height ELSE updates.height,
   color |-> IF updates.color = NoColor THEN existing.color ELSE updates.color]

\* the shape shared by the three battlemap cover commands: gate, lookup,
\* cover lookup (coverMissing), change the cover map, respond, broadcast.
\* coverMissing and newCovers are read only once the lookup has succeeded
BattlemapCoverCommand(c, ack, opName, battlemapId, coverMissing, newCovers, reply, task) ==
  /\ SceneCommand(c, [name |-> opName, conn |-> c, ack |-> ack])
  /\ IF ~ensureBattlemapMutator(c)
     THEN emitted' = Forbidden(c, ack) /\ UNCHANGED <<sceneVars, storage>>
     ELSE IF getBattlemapOrRespond(battlemapId) # ""
     THEN /\ emitted' = Failed(c, ack, getBattlemapOrRespond(battlemapId))
          /\ UNCHANGED <<sceneVars, storage>>
     ELSE IF coverMissing
     THEN /\ emitted' = Failed(c, ack, "cover-not-found")
          /\ UNCHANGED <<sceneVars, storage>>
     ELSE LET bs1 == SetBattlemap(battlemapState,
                        [battlemapState.maps[battlemapId] EXCEPT !.covers = newCovers])
          IN /\ battlemapState' = bs1
             /\ emitted' = respond(c, ack, reply)
                           \o emitBattlemapUpdate(bs1, battlemapId)
             /\ runBackgroundTask(task)
             /\ UNCHANGED <<nextBattlemapSeq, covers>>

\* socket.on('battlemap:add-cover'); cover.id = NoCoverId makes the server
\* generate the id
BattlemapAddCover(c, ack, battlemapId, cover) ==
  LET generate == cover.id = NoCoverId
      coverId == IF generate THEN GeneratedCoverId(nextCoverSeq + 1) ELSE cover.id
      sanitized == sanitizeCover([cover EXCEPT !.id = coverId])
      accepted == ensureBattlemapMutator(c) /\ getBattlemapOrRespond(battlemapId) = ""
  IN /\ (accepted /\ generate) => nextCoverSeq < MaxGenCovers
     /\ BattlemapCoverCommand(c, ack, "battlemap:add-cover", battlemapId,
                              FALSE,
                              FnSet(battlemapState.maps[battlemapId].covers,
                                    sanitized.id, sanitized),
                              [ok |-> TRUE, coverId |-> sanitized.id],
                              Task("upsertCoverRow", battlemapId, sanitized.id,
                                   CoverRow(battlemapId, sanitized)))
     /\ nextCoverSeq' = IF accepted /\ generate THEN nextCoverSeq + 1 ELSE nextCoverSeq

\* variant: the cover is rebuilt from the update payload alone
BattlemapUpdateCover_Replace(c, ack, battlemapId, coverId, updates) ==
  /\ BattlemapCoverCommand(c, ack, "battlemap:update-cover", battlemapId,
       coverId = NoCoverId \/ coverId \notin DOMAIN battlemapState.maps[battlemapId].covers,
       FnSet(battlemapState.maps[battlemapId].covers, coverId,
             sanitizeCover([id |-> coverId, x |-> updates.x, y |-> updates.y,
                            width |-> updates.width, height |-> updates.height,
                            color |-> updates.color])),
       [ok |-> TRUE],
       Task("upsertCoverRow", battlemapId, coverId,
            CoverRow(battlemapId,
                     sanitizeCover([id |-> coverId, x |-> updates.x, y |-> updates.y,
                                    width |-> updates.width, height |-> updates.height,
                                    color |-> updates.color]))))
  /\ UNCHANGED nextCoverSeq

\* variant: the cover is stored under the id the merged record carries
BattlemapUpdateCover_PayloadId(c, ack, battlemapId, coverId, updates) ==
  /\ BattlemapCoverCommand(c, ack, "battlemap:update-cover", battlemapId,
       coverId = NoCoverId \/ coverId \notin DOMAIN battlemapState.maps[battlemapId].covers,
       LET sanitized ==
             sanitizeCover(Overlay(battlemapState.maps[battlemapId].covers[coverId], updates))
       IN FnSet(battlemapState.maps[battlemapId].covers, sanitized.id, sanitized),
       [ok |-> TRUE],
       Task("upsertCoverRow", battlemapId, coverId,
            CoverRow(battlemapId,
                     sanitizeCover(Overlay(battlemapState.maps[battlemapId].covers[coverId],
                                           updates)))))
  /\ UNCHANGED nextCoverSeq

\* socket.on('battlemap:update-cover')
BattlemapUpdateCover(c, ack, battlemapId, coverId, updates) ==
  /\ BattlemapCoverCommand(c, ack, "battlemap:update-cover", battlemapId,
       coverId = NoCoverId \/ coverId \notin DOMAIN battlemapState.maps[battlemapId].covers,
       FnSet(battlemapState.maps[battlemapId].covers, coverId,
             sanitizeCover([Overlay(battlemapState.maps[battlemapId].covers[coverId], updates)
                              EXCEPT !.id = coverId])),
       [ok |-> TRUE],
       Task("upsertCoverRow", battlemapId, coverId,
            CoverRow(battlemapId,
                     sanitizeCover([Overlay(battlemapState.maps[battlemapId].covers[coverId],
                                            updates) EXCEPT !.id = coverId]))))
  /\ UNCHANGED nextCoverSeq

\* socket.on('battlemap:remove-cover')
BattlemapRemoveCover(c, ack, battlemapId, coverId) ==
  /\ BattlemapCoverCommand(c, ack, "battlemap:remove-cover", battlemapId,
       coverId = NoCoverId \/ coverId \notin DOMAIN battlemapState.maps[battlemapId].covers,
       FnDelete(battlemapState.maps[battlemapId].covers, coverId),
       [ok |-> TRUE],
       Task("deleteCoverRow", NoBattlemapId, coverId, NoRow))
  /\ UNCHANGED nextCoverSeq

(***************************************************************************)
(* The closures run, Supabase answers                                      *)
(***************************************************************************)
\* the request a closure sends when it runs; NoRow when it sends none
\* (updateBattlemapRow of a battlemap that is gone resolves at once)
RequestOf(task, bs) ==
  CASE task.kind = "updateBattlemapRow" ->
         IF task.battlemapId \in DOMAIN bs.maps
         THEN [task EXCEPT !.row = BattlemapRow(bs.maps[task.battlemapId])]
         ELSE NoRow
    [] task.kind = "deleteBattlemap" ->
         [task EXCEPT !.kind = "deleteCoversForBattlemap"]
    [] OTHER -> task

\* variant: the closure queued last runs first
TaskStarts_NewestFirst ==
  /\ storage # Unobserved
  /\ storage.scheduled # <<>>
  /\ LET newest == Len(storage.scheduled)
         request == RequestOf(storage.scheduled[newest], battlemapState)
     IN storage' = [storage EXCEPT
                      !.scheduled = SubSeq(@, 1, newest - 1),
                      !.inflight = IF request = NoRow THEN @ ELSE Append(@, request)]
  /\ op' = [name |-> "background-task", conn |-> 0]
  /\ emitted' = <<>>
  /\ UNCHANGED <<presenceVars, sceneVars, process, clients>>

\* setImmediate callbacks run in the order they were queued, each between
\* two handlers
TaskStarts ==
  /\ storage # Unobserved
  /\ storage.scheduled # <<>>
  /\ LET request == RequestOf(Head(storage.scheduled), battlemapState)
     IN storage' = [storage EXCEPT
                      !.scheduled = Tail(@),
                      !.inflight = IF request = NoRow THEN @ ELSE Append(@, request)]
  /\ op' = [name |-> "background-task", conn |-> 0]
  /\ emitted' = <<>>
  /\ UNCHANGED <<presenceVars, sceneVars, process, clients>>

StoredIds(st) == {st.battlemaps[i].id : i \in 1..Len(st.battlemaps)}

\* the constraints of the schema: battlemaps.id is a primary key,
\* battlemap_covers.battlemap_id references battlemaps(id)
Accepts(st, r) ==
  CASE r.kind = "insertBattlemapRow" -> r.battlemapId \notin StoredIds(st)
    [] r.kind = "upsertCoverRow" -> r.battlemapId \in StoredIds(st)
    [] OTHER -> TRUE

\* the tables after the request r; battlemap_covers.id is a primary key and
\* the covers of a deleted battlemap go with it (ON DELETE CASCADE)
ApplyWrite(st, r) ==
  LET coversLeft(id) == {k \in DOMAIN st.covers : st.covers[k].battlemap_id # id}
  IN CASE r.kind = "insertBattlemapRow" ->
            [st EXCEPT !.battlemaps = Append(@, r.row)]
       [] r.kind = "updateBattlemapRow" ->
            [st EXCEPT !.battlemaps =
               [i \in 1..Len(@) |-> IF @[i].id = r.battlemapId THEN r.row ELSE @[i]]]
       [] r.kind = "deleteCoversForBattlemap" ->
            [st EXCEPT !.covers = [k \in coversLeft(r.battlemapId) |-> @[k]]]
       [] r.kind = "deleteBattlemapRow" ->
            [st EXCEPT !.battlemaps = SelectSeq(@, LAMBDA row : row.id # r.battlemapId),
                       !.covers = [k \in coversLeft(r.battlemapId) |-> @[k]]]
       [] r.kind = "upsertCoverRow" ->
            [st EXCEPT !.covers = FnSet(@, r.coverId, r.row)]
       [] r.kind = "deleteCoverRow" ->
            [st EXCEPT !.covers = [k \in DOMAIN @ \ {r.coverId} |-> @[k]]]

RemoveAt(seq, i) == [j \in 1..(Len(seq) - 1) |-> IF j < i THEN seq[j] ELSE seq[j + 1]]

\* the requests the closure goes on to send once r has been answered:
\* await deleteCoversForBattlemap(id); await deleteBattlemapRow(id)
Continuation(r) ==
  IF r.kind = "deleteCoversForBattlemap"
  THEN << [r EXCEPT !.kind = "deleteBattlemapRow"] >>
  ELSE <<>>

\* Supabase carries out a request; requests in flight are answered in any
\* order
WriteCompletes(i) ==
  /\ storage # Unobserved
  /\ i \in 1..Len(storage.inflight)
  /\ Accepts(storage, storage.inflight[i])
  /\ storage' = [ApplyWrite(storage, storage.inflight[i]) EXCEPT
                   !.inflight = RemoveAt(@, i) \o Continuation(storage.inflight[i])]
  /\ op' = [name |-> "write-completed", conn |-> 0]
  /\ emitted' = <<>>
  /\ UNCHANGED <<presenceVars, sceneVars, process, clients>>

\* variant: a failed write is sent again
WriteFails_Retried(i, rejects) ==
  /\ storage # Unobserved
  /\ i \in 1..Len(storage.inflight)
  /\ storage' = [storage EXCEPT
                   !.inflight = Append(RemoveAt(@, i), storage.inflight[i])]
  /\ op' = [name |-> "write-failed", conn |-> 0]
  /\ emitted' = <<>>
  /\ UNCHANGED <<presenceVars, sceneVars, process, clients>>

\* a request fails (network, constraint): the tables stay as they are.  The
\* client either rejects, which ends the closure in .catch (console.error),
\* or resolves with an error field nobody reads, and the closure goes on
WriteFails(i, rejects) ==
  /\ storage # Unobserved
  /\ i \in 1..Len(storage.inflight)
  /\ storage' = [storage EXCEPT
                   !.inflight = RemoveAt(@, i)
                                \o (IF rejects THEN <<>>
                                    ELSE Continuation(storage.inflight[i]))]
  /\ op' = [name |-> "write-failed", conn |-> 0]
  /\ emitted' = <<>>
  /\ UNCHANGED <<presenceVars, sceneVars, process, clients>>

(***************************************************************************)
(* Legacy cover store                                                      *)
(***************************************************************************)
\* socket.on('add-cover'); a payload with a non-numeric x, y, width or height
\* is dropped
AddCover(c, data) ==
  /\ UNCHANGED storage
  /\ SceneCommand(c, [name |-> "add-cover", conn |-> c])
  /\ IF ~(IsNumber(data.x) /\ IsNumber(data.y) /\ IsNumber(data.width)
          /\ IsNumber(data.height))
     THEN emitted' = <<>> /\ UNCHANGED sceneVars
     ELSE LET generate == data.id = NoCoverId
              id == IF generate THEN GeneratedCoverId(nextCoverSeq + 1) ELSE data.id
              sanitizedWidth == clamp(data.width, 0, PercentMax)
              sanitizedHeight == clamp(data.height, 0, PercentMax)
              maxX == PercentMax - sanitizedWidth
              maxY == PercentMax - sanitizedHeight
              cover == [id |-> id, x |-> clamp(data.x, 0, maxX), y |-> clamp(data.y, 0, maxY),
                        width |-> sanitizedWidth, height |-> sanitizedHeight,
                        color |-> IF data.color # NoColor THEN data.color
                                  ELSE DefaultCoverColor]
          IN /\ generate => nextCoverSeq < MaxGenCovers
             /\ nextCoverSeq' = IF generate THEN nextCoverSeq + 1 ELSE nextCoverSeq
             /\ covers' = FnSet(covers, id, cover)
             /\ emitted' = << Event("cover-added", ToAll, cover) >>
             /\ UNCHANGED <<battlemapState, nextBattlemapSeq>>

\* socket.on('remove-cover')
RemoveCover(c, id) ==
  /\ UNCHANGED storage
  /\ SceneCommand(c, [name |-> "remove-cover", conn |-> c])
  /\ IF id # NoCoverId /\ id \in DOMAIN covers
     THEN /\ covers' = FnDelete(covers, id)
          /\ emitted' = << Event("cover-removed", ToAll, [id |-> id]) >>
     ELSE emitted' = <<>> /\ UNCHANGED covers
  /\ UNCHANGED <<battlemapState, nextBattlemapSeq, nextCoverSeq>>

\* socket.on('update-cover')
UpdateCover(c, data) ==
  /\ UNCHANGED storage
  /\ SceneCommand(c, [name |-> "update-cover", conn |-> c])
  /\ IF data.id = NoCoverId \/ data.id \notin DOMAIN covers
     THEN emitted' = <<>> /\ UNCHANGED covers
     ELSE LET cover == covers[data.id]
              hasX == IsNumber(data.x)
              hasY == IsNumber(data.y)
              hasWidth == IsNumber(data.width)
              hasHeight == IsNumber(data.height)
              hasColor == data.color # NoColor
              nextWidth == IF hasWidth THEN clamp(data.width, 0, PercentMax) ELSE cover.width
              nextHeight == IF hasHeight THEN clamp(data.height, 0, PercentMax)
                            ELSE cover.height
              maxX == PercentMax - nextWidth
              maxY == PercentMax - nextHeight
              nextCover ==
                [id |-> cover.id,
                 x |-> clamp(IF hasX THEN data.x ELSE cover.x, 0, maxX),
                 y |-> clamp(IF hasY THEN data.y ELSE cover.y, 0, maxY),
                 width |-> nextWidth, height |-> nextHeight,
                 color |-> IF hasColor THEN data.color ELSE cover.color]
          IN /\ covers' = FnSet(covers, data.id, nextCover)
             /\ emitted' = << Event("cover-updated", ToAll, nextCover) >>
  /\ UNCHANGED <<battlemapState, nextBattlemapSeq, nextCoverSeq>>

(***************************************************************************)
(* Boot: loadBattlemapStateFromSupabase                                    *)
(***************************************************************************)
NoValue == "null"                         \* a null column

\* the row the seeding insert returns when the table is empty
SeedRow ==
  [id |-> BattlemapId(1), name |-> DEFAULT_BATTLEMAP_NAME,
   map_path |-> DEFAULT_BATTLEMAP_MAP_PATH,
   grid_scale |-> DEFAULT_SETTINGS.gridScale,
   grid_offset_x |-> DEFAULT_SETTINGS.gridOffsetX,
   grid_offset_y |-> DEFAULT_SETTINGS.gridOffsetY,
   grid_data |-> DEFAULT_BATTLEMAP_GRID_DATA]

BattlemapFromRow(row) ==
  [id |-> row.id,
   name |-> IF row.name # NoValue THEN row.name ELSE DEFAULT_BATTLEMAP_NAME,
   mapPath |-> IF row.map_path # NoValue THEN row.map_path ELSE NoPath,
   gridScale |-> IF IsNumber(row.grid_scale) THEN row.grid_scale
                 ELSE DEFAULT_SETTINGS.gridScale,
   gridOffsetX |-> IF IsNumber(row.grid_offset_x) THEN row.grid_offset_x
                   ELSE DEFAULT_SETTINGS.gridOffsetX,
   gridOffsetY |-> IF IsNumber(row.grid_offset_y) THEN row.grid_offset_y
                   ELSE DEFAULT_SETTINGS.gridOffsetY,
   gridData |-> sanitizeGridData(row.grid_data),
   covers |-> <<>>]

\* the in-memory state after a successful load of the given rows
\* (battlemap rows in created_at order, cover rows in any order)
loadBattlemapStateFromSupabase(storedRows, coverRows) ==
  LET battlemapRows == IF storedRows = <<>> THEN << SeedRow >> ELSE storedRows
      ids == {battlemapRows[i].id : i \in 1..Len(battlemapRows)}
      rowOf(id) == battlemapRows[CHOOSE i \in 1..Len(battlemapRows) :
                                   battlemapRows[i].id = id]
      coversOf(id) ==
        LET mine == {r \in coverRows : r.battlemap_id = id}
        IN [k \in {r.id : r \in mine} |->
              sanitizeCover(CHOOSE r \in mine : r.id = k)]
      loaded == [order |-> [i \in 1..Len(battlemapRows) |-> battlemapRows[i].id],
                 maps |-> [id \in ids |->
                             [BattlemapFromRow(rowOf(id)) EXCEPT !.covers = coversOf(id)]],
                 activeBattlemapId |-> NoBattlemapId]
  IN [loaded EXCEPT !.activeBattlemapId = FallbackActiveId(loaded)]

(***************************************************************************)
(* Inputs                                                                  *)
(***************************************************************************)
MaxBootRows == 2       \* battlemap rows found in storage at boot

\* x / width (and y / height) pairs a client or a stored row may carry
HorizontalInputs ==
  { <<-10, 40>>, <<70, 40>>, <<40, 150>>, <<NotNumber, 70>>, <<70, NotNumber>> }
VerticalInputs == { <<0, 100>>, <<150, -10>> }
CoverColorInputs == { NoColor, "#0000ff" }
ClientCoverIds == {CoverId(k) : k \in 1..MaxCoverIds}

CoverPayloads ==
  { [id |-> id, x |-> h[1], width |-> h[2], y |-> v[1], height |-> v[2], color |-> col] :
      id \in ClientCoverIds \cup {NoCoverId}, h \in HorizontalInputs,
      v \in VerticalInputs, col \in CoverColorInputs }

CoverUpdates ==
  { [x |-> x, width |-> w, y |-> Absent, height |-> hgt, color |-> col] :
      x \in {Absent, 70}, w \in {Absent, 70, 150}, hgt \in {Absent, NotNumber},
      col \in {NoColor, ""} }

LegacyCoverUpdates ==
  { [id |-> id, x |-> x, width |-> w, y |-> NotNumber, height |-> hgt, color |-> col] :
      id \in ClientCoverIds \cup {NoCoverId}, x \in {NotNumber, 70},
      w \in {NotNumber, 70, 150}, hgt \in {NotNumber, -10}, col \in {NoColor, "#0000ff"} }

BattlemapIdInputs == {BattlemapId(n) : n \in 1..MaxBattlemaps} \cup {NoBattlemapId}
CoverIdInputs == ClientCoverIds \cup {GeneratedCoverId(n) : n \in 1..MaxGenCovers}
                 \cup {NoCoverId}
NameInputs == { NoString, "  ", " Cave " }
MapPathInputs == { NoString, " /maps/b.png ", DEFAULT_BATTLEMAP_MAP_PATH }
SettingInputs == { Absent, 2 }
GridDataInputs ==
  { NoGridData,
    [verticalLines |-> <<10>>, horizontalLines |-> <<>>, imageWidth |-> 640,
     imageHeight |-> NotNumber],
    [verticalLines |-> <<10>>, horizontalLines |-> <<20>>, imageWidth |-> 640,
     imageHeight |-> 480] }

PidInputs == ClientPids \cup {SocketId(c) : c \in Conns}
             \cup {PersistentTokenId(n) : n \in 1..MaxTokens} \cup {NoPid}
TokenIdInputs == {SocketId(c) : c \in Conns} \cup {TokenId(n) : n \in 1..MaxTokens}
PositionInputs == Positions \cup {NullPosition}

StoredRow(n, mapPath) ==
  [id |-> BattlemapId(n), name |-> "Cave", map_path |-> mapPath,
   grid_scale |-> NotNumber, grid_offset_x |-> 0, grid_offset_y |-> 0,
   grid_data |-> NoGridData]

\* what storage may hold at boot: up to MaxBootRows battlemaps, and cover
\* rows with unclamped numbers, some of them pointing at no battlemap
StoredBattlemapRows ==
  UNION { [1..n -> {NoValue, DEFAULT_BATTLEMAP_MAP_PATH}] : n \in 0..Min(MaxBootRows, MaxBattlemaps) }
StoredCoverRows ==
  { {} } \cup
  { { [id |-> CoverId(1), battlemap_id |-> BattlemapId(b), x |-> h[1], width |-> h[2],
       y |-> 150, height |-> -10, color |-> NoColor] } :
      b \in 1..2, h \in { <<-10, 40>>, <<70, 150>> } }

(***************************************************************************)
(* Initial state: the process has booted and listens                       *)
(***************************************************************************)
Serving(paths, coverRows) ==
  /\ connState = [c \in Conns |-> "new"]
  /\ timerPending = [c \in Conns |-> FALSE]
  /\ identificationReceived = [c \in Conns |-> FALSE]
  /\ userData = [c \in Conns |-> NoUserData]
  /\ users = <<>>
  /\ disconnectedUsers = <<>>
  /\ displayModeUsers = {}
  /\ nextTokenSeq = 0
  /\ battlemapState =
       loadBattlemapStateFromSupabase([i \in 1..Len(paths) |-> StoredRow(i, paths[i])],
                                      coverRows)
  /\ nextBattlemapSeq = Max(Len(paths), 1)
  /\ covers = <<>>
  /\ nextCoverSeq = 0
  /\ op = [name |-> "boot", conn |-> 0]
  /\ emitted = <<>>
  /\ process = "listening"

Boot(paths, coverRows) ==
  /\ Serving(paths, coverRows)
  /\ storage = Unobserved
  /\ clients = Unobserved

Init == \E paths \in StoredBattlemapRows, coverRows \in StoredCoverRows :
          Boot(paths, coverRows)

(***************************************************************************)
(* Boot as a step: app.prepare().then(...)                                 *)
(***************************************************************************)
\* the module has been evaluated, the tables hold what an earlier run left
Booting(paths, coverRows) ==
  /\ connState = [c \in Conns |-> "new"]
  /\ timerPending = [c \in Conns |-> FALSE]
  /\ identificationReceived = [c \in Conns |-> FALSE]
  /\ userData = [c \in Conns |-> NoUserData]
  /\ users = <<>>
  /\ disconnectedUsers = <<>>
  /\ displayModeUsers = {}
  /\ nextTokenSeq = 0
  /\ battlemapState = [order |-> <<>>, maps |-> <<>>, activeBattlemapId |-> NoBattlemapId]
  /\ nextBattlemapSeq = Len(paths)
  /\ covers = <<>>
  /\ nextCoverSeq = 0
  /\ op = [name |-> "start", conn |-> 0]
  /\ emitted = <<>>
  /\ process = "booting"
  /\ storage = [battlemaps |-> [i \in 1..Len(paths) |-> StoredRow(i, paths[i])],
                covers |-> [k \in {r.id : r \in coverRows} |->
                              CHOOSE r \in coverRows : r.id = k],
                scheduled |-> <<>>, inflight |-> <<>>]
  /\ clients = Unobserved

\* the three awaited requests of loadBattlemapStateFromSupabase, in order;
\* the seeding insert is sent only when the first select found no row
LoadSteps(st) ==
  IF st.battlemaps = <<>> THEN << "battlemaps", "seed", "covers" >>
  ELSE << "battlemaps", "covers" >>
LoadFailures == {"none", "battlemaps", "seed", "covers"}

\* variant: a failed load is logged and the server starts anyway
ProcessAfterLoad_ServeAnyway(failed) == "listening"

\* try { await loadBattlemapStateFromSupabase() } catch { process.exit(1) }
ProcessAfterLoad(failed) == IF failed = "none" THEN "listening" ELSE "exited"

\* position of a step in the load, 0 when the load does not take it
StepIndex(steps, name) ==
  IF \E i \in 1..Len(steps) : steps[i] = name
  THEN CHOOSE i \in 1..Len(steps) : steps[i] = name ELSE 0

\* the whole boot callback: no connection exists yet, so nothing runs
\* between its awaits.  failed names the request that fails, if any
LoadBattlemapState(failed) ==
  /\ process = "booting"
  /\ failed # "none" => StepIndex(LoadSteps(storage), failed) # 0
  /\ LET steps == LoadSteps(storage)
         reached(name) ==
           /\ StepIndex(steps, name) # 0
           /\ failed # "none" => StepIndex(steps, name) < StepIndex(steps, failed)
         seeded == reached("seed")
     IN /\ storage' = IF seeded THEN [storage EXCEPT !.battlemaps = << SeedRow >>]
                      ELSE storage
        /\ nextBattlemapSeq' = IF seeded THEN 1 ELSE nextBattlemapSeq
        /\ battlemapState' =
             IF failed = "none"
             THEN loadBattlemapStateFromSupabase(
                    storage.battlemaps,
                    {storage.covers[k] : k \in DOMAIN storage.covers})
             ELSE battlemapState
  /\ process' = ProcessAfterLoad(failed)
  /\ op' = [name |-> "load", conn |-> 0, failed |-> failed]
  /\ emitted' = <<>>
  /\ UNCHANGED <<presenceVars, covers, nextCoverSeq, clients>>

InitBooting == \E paths \in StoredBattlemapRows, coverRows \in StoredCoverRows :
                 Booting(paths, coverRows)

\* an empty store at boot: the seeded default battlemap only
InitSeeded == Boot(<<>>, {})

\* a store that holds one battlemap with one out-of-range cover
InitStored ==
  \E coverRows \in StoredCoverRows :
    /\ \E r \in coverRows : r.battlemap_id = BattlemapId(1) /\ r.x < 0
    /\ Boot(<< DEFAULT_BATTLEMAP_MAP_PATH >>, coverRows)

(***************************************************************************)
(* Next-state relations                                                    *)
(***************************************************************************)
\* connection events of the sockets cs, identifying with the given payloads
ConnectionStep(cs, payloads) ==
  \E c \in cs :
    \/ Connect(c)
    \/ \E data \in payloads : UserIdentify(c, data)
    \/ Disconnect(c)

TimeoutStep(cs) == \E c \in cs : IdentifyTimeout(c)

RemoveTokenStep(cs) == \E c \in cs, pid \in PidInputs : RemoveToken(c, pid)

TokenUpdateStep(cs, positions) ==
  \E c \in cs :
    \/ \E t \in TokenIdInputs \cup {NoPid}, p \in positions : PositionUpdate(c, t, p)
    \/ \E t \in TokenIdInputs \cup {NoPid}, img \in Images \cup {NoImage} :
         TokenImageUpdate(c, t, img)

AddTokenStep(cs) ==
  \E c \in cs, col \in Colors \cup {""}, p \in PositionInputs : AddToken(c, col, p)

\* the payload fields clients send with scene commands
SceneInputs ==
  [battlemapIds |-> BattlemapIdInputs, names |-> NameInputs, mapPaths |-> MapPathInputs,
   settings |-> SettingInputs, gridData |-> GridDataInputs, covers |-> CoverPayloads,
   coverUpdates |-> CoverUpdates, legacyUpdates |-> LegacyCoverUpdates,
   coverIds |-> CoverIdInputs, maxBattlemaps |-> MaxBattlemaps]

BattlemapStep(cs, inp) ==
  \E c \in cs, ack \in BOOLEAN :
    \/ /\ ensureBattlemapMutator(c) => nextBattlemapSeq < inp.maxBattlemaps
       /\ \E n \in inp.names, m \in inp.mapPaths : BattlemapCreate(c, ack, n, m)
    \/ \E b \in inp.battlemapIds :
         \/ BattlemapSetActive(c, ack, b)
         \/ \E n \in inp.names : BattlemapRename(c, ack, b, n)
         \/ \E m \in inp.mapPaths : BattlemapUpdateMapPath(c, ack, b, m)
         \/ \E s \in inp.settings, x \in inp.settings :
              BattlemapUpdateSettings(c, ack, b, s, x, Absent)
         \/ \E g \in inp.gridData : BattlemapUpdateGridData(c, ack, b, g)
         \/ BattlemapDelete(c, ack, b)

BattlemapCoverStep(cs, inp) ==
  \E c \in cs, ack \in BOOLEAN, b \in inp.battlemapIds :
    \/ \E cover \in inp.covers : BattlemapAddCover(c, ack, b, cover)
    \/ \E k \in inp.coverIds, u \in inp.coverUpdates :
         BattlemapUpdateCover(c, ack, b, k, u)
    \/ \E k \in inp.coverIds : BattlemapRemoveCover(c, ack, b, k)

CoverStep(cs, inp) ==
  \E c \in cs :
    \/ \E data \in inp.covers : AddCover(c, data)
    \/ \E data \in inp.legacyUpdates : UpdateCover(c, data)
    \/ \E k \in inp.coverIds : RemoveCover(c, k)

\* the whole server
Next ==
  \/ ConnectionStep(Conns, IdentifyPayloads)
  \/ TimeoutStep(Conns)
  \/ RemoveTokenStep(Conns)
  \/ TokenUpdateStep(Conns, PositionInputs)
  \/ AddTokenStep(Conns)
  \/ BattlemapStep(Conns, SceneInputs)
  \/ BattlemapCoverStep(Conns, SceneInputs)
  \/ CoverStep(Conns, SceneInputs)

Spec == Init /\ [][Next]_vars

\* Connection registry and resurrection cache: identify handshakes of every
\* shape, the grace-period timer, disconnects and token removal
MaxPresenceConns == 2
PresenceConns == 1..Min(MaxPresenceConns, MaxConns)
NextPresence ==
  \/ ConnectionStep(PresenceConns, IdentifyPayloads)
  \/ TimeoutStep(PresenceConns)
  \/ RemoveTokenStep(PresenceConns)
SpecPresence == InitSeeded /\ [][NextPresence]_vars

\* Participants only (no display, no suppressed presence) that send
\* well-formed position and image updates: what a reconnect restores
ParticipantPayloads ==
  {d \in IdentifyPayloads : ~d.isDisplay /\ ~d.suppressPresence
                            /\ d.allowBattlemapMutations = "absent"}
NextResurrection ==
  \/ ConnectionStep(PresenceConns, ParticipantPayloads)
  \/ TokenUpdateStep(PresenceConns, Positions)
SpecResurrection == InitSeeded /\ [][NextResurrection]_vars

\* Departures: participants and display viewers that move and decorate
\* tokens and then disconnect
DeparturePayloads ==
  {d \in IdentifyPayloads : ~d.suppressPresence /\ d.allowBattlemapMutations = "absent"}
NextDeparture ==
  \/ ConnectionStep(PresenceConns, DeparturePayloads)
  \/ TokenUpdateStep(PresenceConns, Positions)
SpecDeparture == InitSeeded /\ [][NextDeparture]_vars

\* Freestanding tokens: participants and display viewers come and go while
\* any of them spawns tokens
NextSpawn ==
  \/ ConnectionStep(PresenceConns, DeparturePayloads)
  \/ AddTokenStep(PresenceConns)
SpecSpawn == InitSeeded /\ [][NextSpawn]_vars

\* Several sockets presenting the same persistent id, and a display that
\* removes tokens
SharedPidPayloads ==
  {d \in IdentifyPayloads : d.persistentUserId # NoPid /\ ~d.suppressPresence
                            /\ d.allowBattlemapMutations = "absent"}
NextSharedPid ==
  \/ ConnectionStep(Conns, SharedPidPayloads)
  \/ RemoveTokenStep(Conns)
SpecSharedPid == InitSeeded /\ [][NextSharedPid]_vars

\* The identify handshake against the grace-period timer.  The timer always
\* fires: the setTimeout is never cancelled and no handler blocks the event
\* loop
GracePayloads == {d \in IdentifyPayloads : d.allowBattlemapMutations = "absent"}
NextGrace ==
  \/ ConnectionStep(PresenceConns, GracePayloads)
  \/ TimeoutStep(PresenceConns)
SpecGrace ==
  /\ InitSeeded /\ [][NextGrace]_vars
  /\ \A c \in PresenceConns : WF_vars(IdentifyTimeout(c))

\* Authority over the scene store: one socket that identifies with or
\* without mutation authority and issues every battlemap command against a
\* stored battlemap
MaxSceneConns == 1
SceneConns == 1..Min(MaxSceneConns, MaxConns)
ScenePayloads ==
  {d \in IdentifyPayloads :
     /\ d.persistentUserId = NoPid /\ ~d.suppressPresence
     /\ \/ d.allowBattlemapMutations = "absent"
        \/ (d.isDisplay <=> d.allowBattlemapMutations = "false")}
MaxSceneBattlemaps == 2    \* battlemap ids this socket gets to see
AuthorityInputs ==
  [SceneInputs EXCEPT
     !.battlemapIds = {BattlemapId(n) : n \in 1..MaxSceneBattlemaps},
     !.names = {NoString}, !.mapPaths = {DEFAULT_BATTLEMAP_MAP_PATH}, !.settings = {2},
     !.gridData = {g \in GridDataInputs : g # NoGridData /\ IsNumber(g.imageHeight)},
     !.covers = {p \in CoverPayloads : p.id = CoverId(1) /\ p.x = 70 /\ p.width = 40
                                       /\ p.y = 0 /\ p.color = NoColor},
     !.coverUpdates = {u \in CoverUpdates : u.x = Absent /\ u.width = 150
                                            /\ u.height = Absent /\ u.color = NoColor},
     !.coverIds = {CoverId(1)},
     !.maxBattlemaps = MaxSceneBattlemaps]
NextScene ==
  \/ ConnectionStep(SceneConns, ScenePayloads)
  \/ BattlemapStep(SceneConns, AuthorityInputs)
  \/ BattlemapCoverStep(SceneConns, AuthorityInputs)
SpecScene == InitStored /\ [][NextScene]_vars

\* The battlemap registry: an authorized socket creates, activates and
\* deletes battlemaps, and moves the default map path around, over two stored
\* battlemaps
InitRegistry ==
  \E paths \in StoredBattlemapRows, coverRows \in StoredCoverRows :
    Len(paths) = MaxBootRows /\ Boot(paths, coverRows)
RegistryPayloads ==
  {d \in IdentifyPayloads : /\ d.persistentUserId = NoPid /\ ~d.suppressPresence
                            /\ d.isDisplay /\ d.allowBattlemapMutations = "absent"}
RegistryInputs ==
  [SceneInputs EXCEPT
     !.names = {" Cave "},
     !.mapPaths = {NoString, DEFAULT_BATTLEMAP_MAP_PATH},
     !.settings = {Absent},
     !.gridData = {NoGridData}]
NextRegistry ==
  \/ ConnectionStep(SceneConns, RegistryPayloads)
  \/ BattlemapStep(SceneConns, RegistryInputs)
SpecRegistry == InitRegistry /\ [][NextRegistry]_vars

\* Command outcomes: one socket, with or without mutation authority, issues
\* every battlemap command against existing, unknown and malformed battlemap
\* and cover ids
OutcomeInputs ==
  [RegistryInputs EXCEPT
     !.battlemapIds = {BattlemapId(n) : n \in 1..MaxSceneBattlemaps} \cup {NoBattlemapId},
     !.names = {NoString}, !.settings = {2},
     !.mapPaths = {DEFAULT_BATTLEMAP_MAP_PATH},
     !.covers = AuthorityInputs.covers,
     !.coverUpdates = AuthorityInputs.coverUpdates,
     !.coverIds = {CoverId(1), NoCoverId},
     !.maxBattlemaps = MaxSceneBattlemaps]
NextOutcome ==
  \/ ConnectionStep(SceneConns, ScenePayloads)
  \/ BattlemapStep(SceneConns, OutcomeInputs)
  \/ BattlemapCoverStep(SceneConns, OutcomeInputs)
SpecOutcome == InitStored /\ [][NextOutcome]_vars

\* Cover geometry: an authorized socket adds and updates covers of a stored
\* battlemap and of the legacy cover map with out-of-range numbers, over
\* whatever cover rows boot found in storage
InitCovers ==
  \E coverRows \in StoredCoverRows : Boot(<< DEFAULT_BATTLEMAP_MAP_PATH >>, coverRows)
CoverBoundsPayloads ==
  {d \in IdentifyPayloads : /\ d.persistentUserId = NoPid /\ ~d.suppressPresence
                            /\ ~d.isDisplay /\ d.allowBattlemapMutations = "true"}
CoverBoundsInputs ==
  [SceneInputs EXCEPT
     !.battlemapIds = {BattlemapId(1)},
     !.covers = {p \in CoverPayloads :
                   /\ p.color = NoColor
                   /\ (p.x < 0 \/ p.width = NotNumber) <=> p.height < 0
                   /\ p.id = NoCoverId <=> p.width > PercentMax},
     !.coverUpdates = {u \in CoverUpdates :
                         /\ u.color = NoColor
                         /\ (u.x = Absent) <=> (u.width # Absent)
                         /\ (u.height = NotNumber) <=> (u.width = 70)},
     !.legacyUpdates = {u \in LegacyCoverUpdates :
                          /\ u.color = NoColor /\ u.id # NoCoverId
                          /\ (u.x = NotNumber) <=> (u.width # NotNumber)
                          /\ (u.height = -10) <=> (u.width = 70)},
     !.coverIds = {CoverId(1), GeneratedCoverId(1)}]
NextCovers ==
  \/ ConnectionStep(SceneConns, CoverBoundsPayloads)
  \/ BattlemapCoverStep(SceneConns, CoverBoundsInputs)
  \/ CoverStep(SceneConns, CoverBoundsInputs)
SpecCovers == InitCovers /\ [][NextCovers]_vars

\* Cover merge: an authorized socket adds a coloured cover and updates it with
\* payloads that carry any subset of x, width, height, color and an id
CoverIdUpdates ==
  { [id |-> id, x |-> x, width |-> w, y |-> Absent, height |-> rest[1], color |-> rest[2]] :
      id \in {NoCoverId, GeneratedCoverId(1)}, x \in {Absent, 70},
      w \in {Absent, 70, 150, -10}, rest \in {<<Absent, NoColor>>, <<NotNumber, "">>} }
CoverMergeInputs ==
  [SceneInputs EXCEPT
     !.battlemapIds = {BattlemapId(1)},
     !.covers = {p \in CoverPayloads :
                   /\ p.id = CoverId(1) /\ p.color = "#0000ff"
                   /\ <<p.x, p.width>> \in {<<70, 40>>, <<-10, 40>>}},
     !.coverUpdates = CoverIdUpdates,
     !.coverIds = {CoverId(1), NoCoverId}]
NextCoverMerge ==
  \/ ConnectionStep(SceneConns, CoverBoundsPayloads)
  \/ BattlemapCoverStep(SceneConns, CoverMergeInputs)
SpecCoverMerge == InitCovers /\ [][NextCoverMerge]_vars

\* Grid: an authorized socket creates battlemaps, replaces their grid data
\* with well-formed, half-formed and missing payloads, and moves map paths
GridInputs ==
  [SceneInputs EXCEPT
     !.battlemapIds = {BattlemapId(n) : n \in 1..MaxSceneBattlemaps},
     !.names = {NoString},
     !.mapPaths = {" /maps/b.png ", "  "},
     !.settings = {2},
     !.maxBattlemaps = MaxSceneBattlemaps]
NextGrid ==
  \/ ConnectionStep(SceneConns, RegistryPayloads)
  \/ BattlemapStep(SceneConns, GridInputs)
SpecGrid == InitStored /\ [][NextGrid]_vars

\* Purge: a display removes tokens while participants identify, move, change
\* images, time out and disconnect
NextPurge ==
  \/ ConnectionStep(PresenceConns, DeparturePayloads)
  \/ TimeoutStep(PresenceConns)
  \/ RemoveTokenStep(PresenceConns)
  \/ TokenUpdateStep(PresenceConns, Positions)
SpecPurge == InitSeeded /\ [][NextPurge]_vars

\* Convergence: two participants and their browsers; each browser drags a
\* token it shows, the messages and events travel in order per socket
InitConvergence ==
  /\ Serving(<<>>, {})
  /\ storage = Unobserved
  /\ clients = [c \in Conns |-> NewClient]
ConvergencePayloads ==
  {d \in IdentifyPayloads : /\ d.persistentUserId = NoPid /\ ~d.isDisplay
                            /\ ~d.suppressPresence
                            /\ d.allowBattlemapMutations = "absent"}
ConvergencePositions == {[x |-> 10, y |-> 10], [x |-> 20, y |-> 20]}
ClientStep(cs, positions) ==
  \E c \in cs :
    \/ \E t \in TokenIdInputs, pos \in positions : updateTokenPosition(c, t, pos)
    \/ ClientReceive(c)
    \/ \E t \in TokenIdInputs, pos \in positions : PositionUpdate(c, t, pos)
NextConvergence ==
  \/ ConnectionStep(PresenceConns, ConvergencePayloads)
  \/ ClientStep(PresenceConns, ConvergencePositions)
SpecConvergence == InitConvergence /\ [][NextConvergence]_vars

\* Boot: the load from every stored content, with each of its requests
\* failing or not, then connections
NextBoot ==
  \/ \E failed \in LoadFailures : LoadBattlemapState(failed)
  \/ ConnectionStep(PresenceConns, DeparturePayloads)
  \/ TimeoutStep(PresenceConns)
SpecBoot == InitBooting /\ [][NextBoot]_vars

\* Write-behind persistence: one authorized display issues battlemap and
\* cover commands against a freshly seeded store while the scheduled writes
\* start, complete and fail
InitPersistence ==
  /\ Serving(<<>>, {})
  /\ storage = [battlemaps |-> << SeedRow >>, covers |-> <<>>,
                scheduled |-> <<>>, inflight |-> <<>>]
  /\ clients = Unobserved
PersistenceInputs ==
  [AuthorityInputs EXCEPT !.names = {" Cave "}]
\* the commands that schedule an insert, an update, a delete, an upsert and
\* a cover delete, each with an acknowledgement callback
PersistenceStep(cs, inp) ==
  \E c \in cs :
    \/ /\ ensureBattlemapMutator(c) => nextBattlemapSeq < inp.maxBattlemaps
       /\ \E n \in inp.names, m \in inp.mapPaths : BattlemapCreate(c, TRUE, n, m)
    \/ \E b \in inp.battlemapIds :
         \/ \E n \in inp.names : BattlemapRename(c, TRUE, b, n)
         \/ BattlemapDelete(c, TRUE, b)
         \/ \E cover \in inp.covers : BattlemapAddCover(c, TRUE, b, cover)
         \/ \E k \in inp.coverIds : BattlemapRemoveCover(c, TRUE, b, k)
WriteStep ==
  \/ TaskStarts
  \/ \E i \in 1..MaxPendingWrites : WriteCompletes(i)
FailureStep ==
  \E i \in 1..MaxPendingWrites, rejects \in BOOLEAN : WriteFails(i, rejects)
NextDurable ==
  \/ ConnectionStep(SceneConns, RegistryPayloads)
  \/ PersistenceStep(SceneConns, PersistenceInputs)
  \/ WriteStep
SpecDurable == InitPersistence /\ [][NextDurable]_vars
NextPersistence ==
  \/ ConnectionStep(SceneConns, RegistryPayloads)
  \/ PersistenceStep(SceneConns, PersistenceInputs)
  \/ WriteStep
  \/ FailureStep
SpecPersistence == InitPersistence /\ [][NextPersistence]_vars

\* Write order: an authorized socket renames battlemaps back and forth,
\* creates and deletes them and adds and removes covers while the queued
\* closures start and their requests complete
WriteOrderInputs ==
  [PersistenceInputs EXCEPT !.names = {" Cave ", NoString}]
NextWriteOrder ==
  \/ ConnectionStep(SceneConns, RegistryPayloads)
  \/ PersistenceStep(SceneConns, WriteOrderInputs)
  \/ WriteStep
SpecWriteOrder == InitPersistence /\ [][NextWriteOrder]_vars

(***************************************************************************)
(* Claims: connection registry and resurrection cache                      *)
(***************************************************************************)
UsersWithPid(m, pid) == {i \in 1..Len(m) : m[i].value.persistentUserId = pid}
HasToken(pid) == pid \in DOMAIN disconnectedUsers \/ UsersWithPid(users, pid) # {}
HasTokenNext(pid) == pid \in DOMAIN disconnectedUsers' \/ UsersWithPid(users', pid) # {}
AllPids == PidInputs \ {NoPid}

\* the step is an identify (explicit or by the timer) that initializeUser honors
HonoredIdentify(c) ==
  /\ op'.name \in {"user-identify", "identify-timeout"}
  /\ op'.conn = c
  /\ ~identificationReceived[c]

\* the step is a remove-token issued by c
RemoveTokenBy(c) == op'.name = "remove-token" /\ op'.conn = c

\* C3 (as claimed): a participant identify that finds a Resurrection Cache
\* entry for its persistentId yields a Presence whose color, position and
\* imageSrc are those of the entry, i.e. of the old Presence when it
\* disconnected
C3_ResurrectionRoundTrip ==
  [][\A c \in Conns :
       (HonoredIdentify(c) /\ IsRestored(op'.persistentUserId)
        /\ MapHas(users', SocketId(c)))
       => LET old == disconnectedUsers[op'.persistentUserId]
              new == MapGet(users', SocketId(c))
          IN /\ new.color = old.color
             /\ new.position = old.position
             /\ new.imageSrc = old.imageSrc]_vars

\* C4: a non-suppressed participant identify that matches a cache entry
\* broadcasts exactly one user-reconnected and no user-joined; one that
\* matches none broadcasts exactly one user-joined, carrying a
\* getRandomColor color and the default position, and no user-reconnected
C4_JoinVersusReconnect ==
  [][\A c \in Conns :
       (HonoredIdentify(c) /\ ~userData'[c].suppressPresence /\ ~userData'[c].isDisplay)
       => IF IsRestored(op'.persistentUserId)
          THEN /\ CountEvents(emitted', "user-reconnected") = 1
               /\ CountEvents(emitted', "user-joined") = 0
               /\ \A i \in 1..Len(emitted') :
                    emitted'[i].name = "user-reconnected" => emitted'[i].to = ToOthers(c)
          ELSE /\ CountEvents(emitted', "user-joined") = 1
               /\ CountEvents(emitted', "user-reconnected") = 0
               /\ \A i \in 1..Len(emitted') :
                    emitted'[i].name = "user-joined"
                    => /\ emitted'[i].to = ToOthers(c)
                       /\ emitted'[i].data.position = DefaultPosition
                       /\ emitted'[i].data.color \in getRandomColor]_vars

C4_Witness ==
  /\ op.name = "user-identify"
  /\ CountEvents(emitted, "user-reconnected") = 1
  /\ \E c \in Conns : connState[c] = "closed"

\* C5 (as claimed): a token that exists for a persistent id, in the active
\* registry or in the Resurrection Cache, still exists after every step that
\* is not an accepted remove-token for that id
C5_NoTokenLost ==
  [][\A pid \in AllPids :
       (HasToken(pid)
        /\ ~(op'.name = "remove-token" /\ op'.persistentUserId = pid
             /\ isDisplayUser(op'.conn)))
       => HasTokenNext(pid)]_vars

\* C6: once a connection has been identified, a further identify on it and
\* its grace-period timer change no Presence, registry or cache state and
\* emit nothing
C6_OneIdentifyPerConnection ==
  [][\A c \in Conns :
       (op'.name \in {"user-identify", "identify-timeout"} /\ op'.conn = c
        /\ identificationReceived[c])
       => /\ UNCHANGED <<identificationReceived, userData, users, disconnectedUsers,
                         displayModeUsers>>
          /\ emitted' = <<>>]_vars

C6_Witness ==
  /\ op.name \in {"user-identify", "identify-timeout"}
  /\ emitted = <<>>
  /\ userData[op.conn] # NoUserData
  /\ ~userData[op.conn].suppressPresence
  /\ DOMAIN disconnectedUsers # {}

\* C7: a connection that is open without a Presence eventually has one or
\* closes, and the Presence the timer creates is an anonymous participant
\* without mutation authority whose persistent id is its connection id
C7_AutoIdentify ==
  /\ \A c \in Conns :
       (connState[c] = "open" /\ userData[c] = NoUserData)
       ~> (userData[c] # NoUserData \/ connState[c] = "closed")
  /\ [][\A c \in Conns :
          (op'.name = "identify-timeout" /\ op'.conn = c /\ ~identificationReceived[c])
          => /\ userData'[c] # NoUserData
             /\ userData'[c].persistentUserId = SocketId(c)
             /\ ~userData'[c].isDisplay
             /\ ~userData'[c].allowBattlemapMutations
             /\ ~userData'[c].suppressPresence
             /\ MapHas(users', SocketId(c))]_vars

C7_Witness ==
  /\ op.name = "identify-timeout"
  /\ connState[op.conn] = "open"
  /\ MapHas(users, SocketId(op.conn))
  /\ userData[op.conn].persistentUserId = SocketId(op.conn)

HasAuthority(c) == userData[c] # NoUserData /\ userData[c].allowBattlemapMutations
TokenRemovedEmitted == CountEvents(emitted', "token-removed") > 0

C9_RemoveTokenEffect ==
  [][\A c \in Conns :
       (RemoveTokenBy(c) /\ op'.persistentUserId # NoPid /\ isDisplayUser(c))
       => LET pid == op'.persistentUserId
          IN /\ pid \notin DOMAIN disconnectedUsers'
             /\ UsersWithPid(users', pid) = {}
             /\ \E i \in 1..Len(emitted') :
                  emitted'[i].name = "token-removed" /\ emitted'[i].to = ToAll]_vars

\* C10: a remove-token issued by a participant-role connection leaves the
\* Resurrection Cache and the active registry as they were
C10_ParticipantCannotRemove ==
  [][\A c \in Conns :
       (RemoveTokenBy(c) /\ userData[c] # NoUserData /\ ~userData[c].isDisplay)
       => UNCHANGED <<users, disconnectedUsers>>]_vars

C10_Witness ==
  /\ op.name = "remove-token"
  /\ userData[op.conn] # NoUserData
  /\ ~userData[op.conn].isDisplay
  /\ userData[op.conn].allowBattlemapMutations
  /\ op.persistentUserId # userData[op.conn].persistentUserId
  /\ UsersWithPid(users, op.persistentUserId) # {}

(***************************************************************************)
(* Claims: scene store                                                     *)
(***************************************************************************)
BattlemapCommands ==
  {"battlemap:create", "battlemap:rename", "battlemap:update-map-path",
   "battlemap:update-settings", "battlemap:update-grid-data", "battlemap:delete",
   "battlemap:set-active", "battlemap:add-cover", "battlemap:update-cover",
   "battlemap:remove-cover"}

ForbiddenAck(c) == Event("ack", ToSelf(c), [ok |-> FALSE, error |-> "forbidden"])

\* C1: a battlemap command issued by a connection that has no userData yet,
\* or whose allowBattlemapMutations is false, is answered with
\* {ok: false, error: "forbidden"} and nothing else (when the client passed a
\* callback), and leaves the battlemap order, every battlemap with its
\* covers, and the active battlemap id as they were
C1_AuthorityGate ==
  [][ (op'.name \in BattlemapCommands /\ ~HasAuthority(op'.conn))
        => /\ battlemapState' = battlemapState
           /\ emitted' = IF op'.ack THEN << ForbiddenAck(op'.conn) >> ELSE <<>> ]_vars

\* an identified connection without authority has just been refused the
\* deletion of a stored battlemap that holds a cover
C1_Witness ==
  /\ op.name = "battlemap:delete"
  /\ userData[op.conn] # NoUserData
  /\ userData[op.conn].isDisplay
  /\ ~userData[op.conn].allowBattlemapMutations
  /\ emitted = << ForbiddenAck(op.conn) >>
  /\ \E b \in DOMAIN battlemapState.maps : DOMAIN battlemapState.maps[b].covers # {}

CoverInBounds(cover) ==
  /\ IsNumber(cover.x) /\ IsNumber(cover.y)
  /\ IsNumber(cover.width) /\ IsNumber(cover.height)
  /\ 0 <= cover.width /\ cover.width <= PercentMax
  /\ 0 <= cover.height /\ cover.height <= PercentMax
  /\ 0 <= cover.x /\ cover.x + cover.width <= PercentMax
  /\ 0 <= cover.y /\ cover.y + cover.height <= PercentMax

BattlemapCovers ==
  UNION { {battlemapState.maps[b].covers[k] : k \in DOMAIN battlemapState.maps[b].covers} :
            b \in DOMAIN battlemapState.maps }
LegacyCovers == {covers[k] : k \in DOMAIN covers}

\* C2: every cover kept in a battlemap or in the legacy cover map lies on the
\* board: width and height within 0..100, x >= 0, x + width <= 100, y >= 0,
\* y + height <= 100, whatever numbers add-cover / update-cover payloads or
\* the rows loaded at boot carried
C2_CoverBounds == \A cover \in BattlemapCovers \cup LegacyCovers : CoverInBounds(cover)

\* an update has just widened a battlemap cover past the board, which pulled
\* its x back to 0, while the battlemap and the legacy map both hold covers,
\* one of them under a generated id
C2_Witness ==
  /\ op.name \in {"battlemap:update-cover", "update-cover"}
  /\ \E cover \in BattlemapCovers : cover.width = PercentMax /\ cover.x = 0
  /\ \E cover \in LegacyCovers : cover.x + cover.width = PercentMax /\ cover.x > 0
  /\ \E cover \in BattlemapCovers \cup LegacyCovers : cover.id = GeneratedCoverId(1)

(***************************************************************************)
(* Claims: authority at identify                                           *)
(***************************************************************************)
\* what the claim expects of allowBattlemapMutations for an identify payload
ExpectedAuthority(data) ==
  IF data.allowBattlemapMutations = "absent" THEN data.isDisplay
  ELSE data.allowBattlemapMutations = "true"

\* C11: the first identify of a connection sets allowBattlemapMutations to
\* the payload's flag when it is a boolean, else to true for a display and
\* false for a participant; the timer's auto-identify sets it to false; and
\* as long as the connection keeps its userData the value does not change
C11_AuthorityAtIdentify ==
  [][\A c \in Conns :
       /\ (~identificationReceived[c] /\ op'.name = "user-identify" /\ op'.conn = c)
            => /\ \E data \in IdentifyPayloads : UserIdentify(c, data)
               /\ \A data \in IdentifyPayloads :
                    UserIdentify(c, data)
                    => /\ userData'[c] # NoUserData
                       /\ userData'[c].allowBattlemapMutations = ExpectedAuthority(data)
       /\ (~identificationReceived[c] /\ op'.name = "identify-timeout" /\ op'.conn = c)
            => /\ userData'[c] # NoUserData
               /\ ~userData'[c].allowBattlemapMutations
       /\ (userData[c] # NoUserData /\ userData'[c] # NoUserData)
            => userData'[c].allowBattlemapMutations = userData[c].allowBattlemapMutations
     ]_vars

\* a participant that identified with an explicit true flag has just sent a
\* second identify that asks for the opposite, next to a display that was
\* given authority by default
C11_Witness ==
  /\ op.name = "user-identify"
  /\ emitted = <<>>
  /\ userData[op.conn] # NoUserData
  /\ ~userData[op.conn].isDisplay
  /\ userData[op.conn].allowBattlemapMutations
  /\ \E c \in Conns : /\ c # op.conn /\ userData[c] # NoUserData
                       /\ userData[c].isDisplay /\ userData[c].allowBattlemapMutations

(***************************************************************************)
(* Claims: battlemap registry                                              *)
(***************************************************************************)
\* C12: the active battlemap id names an existing battlemap whenever one
\* exists, and is null when none does
C12_ActiveBattlemap ==
  IF DOMAIN battlemapState.maps # {}
  THEN battlemapState.activeBattlemapId \in DOMAIN battlemapState.maps
  ELSE battlemapState.activeBattlemapId = NoBattlemapId

\* the active battlemap has just been deleted while two others remain, and
\* the active id moved on to one of them
C12_Witness ==
  /\ op.name = "battlemap:delete"
  /\ CountEvents(emitted, "battlemap:active") = 1
  /\ Len(battlemapState.order) = 2
  /\ battlemapState.activeBattlemapId \in DOMAIN battlemapState.maps

(***************************************************************************)
(* Claims: battlemap delete                                                *)
(***************************************************************************)
\* the battlemap a step deleted, read from its battlemap:deleted event
DeletedBattlemapId(evs) ==
  evs[CHOOSE i \in 1..Len(evs) : evs[i].name = "battlemap:deleted"].data.battlemapId

\* positions of the order whose battlemap carries the default map path
DefaultPositions(bs) ==
  {i \in 1..Len(bs.order) : bs.maps[bs.order[i]].mapPath = DEFAULT_BATTLEMAP_MAP_PATH}

\* the active id the delete contract names: the designated default if one
\* remains, else the first remaining battlemap, else null
ExpectedFallback(bs) ==
  IF DefaultPositions(bs) # {}
  THEN bs.order[CHOOSE i \in DefaultPositions(bs) : \A j \in DefaultPositions(bs) : i <= j]
  ELSE IF Len(bs.order) > 0 THEN bs.order[1]
  ELSE NoBattlemapId

\* C13: after an accepted battlemap:delete of battlemap B the store holds
\* neither B nor any of its covers (every other battlemap keeps its fields and
\* covers); if B was active the active id becomes the designated default
\* battlemap if one remains, else the first remaining one, else null; if B was
\* not active the active id is unchanged.
C13_CascadeDelete ==
  [][(op'.name = "battlemap:delete" /\ CountEvents(emitted', "battlemap:deleted") = 1)
       => LET B == DeletedBattlemapId(emitted')
              before == battlemapState
              after == battlemapState'
          IN /\ B \in DOMAIN before.maps
             /\ DOMAIN after.maps = DOMAIN before.maps \ {B}
             /\ after.order = SelectSeq(before.order, LAMBDA id : id # B)
             /\ \A id \in DOMAIN after.maps : after.maps[id] = before.maps[id]
             /\ covers' = covers
             /\ after.activeBattlemapId =
                  IF before.activeBattlemapId = B THEN ExpectedFallback(after)
                  ELSE before.activeBattlemapId ]_vars

\* the active battlemap was deleted, two battlemaps remain, and the one that
\* took over is the default although it is not the first in order
C13_Witness ==
  /\ op.name = "battlemap:delete"
  /\ CountEvents(emitted, "battlemap:deleted") = 1
  /\ CountEvents(emitted, "battlemap:active") = 1
  /\ Len(battlemapState.order) = 2
  /\ battlemapState.activeBattlemapId = battlemapState.order[2]
  /\ battlemapState.maps[battlemapState.order[2]].mapPath = DEFAULT_BATTLEMAP_MAP_PATH

(***************************************************************************)
(* Claims: battlemap create                                                *)
(***************************************************************************)
\* C14: an accepted battlemap:create adds exactly one battlemap, under an id
\* no existing battlemap has, with grid scale 1, offsets 0, the default grid
\* data and no covers, appended at the end of the order; every existing
\* battlemap is untouched; the new battlemap becomes active if and only if no
\* battlemap was active, otherwise the active id is unchanged.
C14_CreateBattlemap ==
  [][(op'.name = "battlemap:create" /\ CountEvents(emitted', "battlemap:list") = 1)
       => LET before == battlemapState
              after == battlemapState'
              added == DOMAIN after.maps \ DOMAIN before.maps
          IN /\ Cardinality(added) = 1
             /\ DOMAIN before.maps \subseteq DOMAIN after.maps
             /\ \A id \in DOMAIN before.maps : after.maps[id] = before.maps[id]
             /\ \A id \in added :
                  /\ \A i \in 1..Len(before.order) : before.order[i] # id
                  /\ after.order = Append(before.order, id)
                  /\ after.maps[id].id = id
                  /\ after.maps[id].gridScale = 1
                  /\ after.maps[id].gridOffsetX = 0
                  /\ after.maps[id].gridOffsetY = 0
                  /\ after.maps[id].gridData = createDefaultGridData
                  /\ DOMAIN after.maps[id].covers = {}
                  /\ after.activeBattlemapId =
                       IF before.activeBattlemapId = NoBattlemapId THEN id
                       ELSE before.activeBattlemapId ]_vars

\* a battlemap was created in an emptied store and became the active one
C14_Witness ==
  /\ op.name = "battlemap:create"
  /\ CountEvents(emitted, "battlemap:list") = 1
  /\ CountEvents(emitted, "battlemap:active") = 1
  /\ Len(battlemapState.order) = 1
  /\ battlemapState.activeBattlemapId = battlemapState.order[1]
  /\ nextBattlemapSeq = MaxBattlemaps

(***************************************************************************)
(* Claims: battlemap set-active                                            *)
(***************************************************************************)
\* C15: an accepted battlemap:set-active that names the battlemap that is
\* already active changes no state and emits no battlemap:active; when it
\* carries an acknowledgement it is answered ok and nothing else is emitted.
C15_IdempotentSetActive ==
  [][\A c \in Conns, ack \in BOOLEAN :
       ( /\ op'.name = "battlemap:set-active" /\ op'.conn = c /\ op'.ack = ack
         /\ ensureBattlemapMutator(c)
         /\ battlemapState.activeBattlemapId \in DOMAIN battlemapState.maps
         /\ BattlemapSetActive(c, ack, battlemapState.activeBattlemapId) )
       => /\ UNCHANGED <<sceneVars, presenceVars>>
          /\ CountEvents(emitted', "battlemap:active") = 0
          /\ emitted' = IF ack THEN << Event("ack", ToSelf(c), [ok |-> TRUE]) >> ELSE <<>> ]_vars

\* a set-active was acknowledged ok and broadcast nothing: it named the
\* battlemap that was already active
C15_Witness ==
  /\ op.name = "battlemap:set-active"
  /\ op.ack
  /\ emitted = << Event("ack", ToSelf(op.conn), [ok |-> TRUE]) >>
  /\ Len(battlemapState.order) >= 2

(***************************************************************************)
(* Claims: command outcomes                                                *)
(***************************************************************************)
NotFoundErrors == {"invalid-battlemap-id", "battlemap-not-found", "cover-not-found"}

\* the acknowledgements among the events of one handler run
Acks(evs) == SelectSeq(evs, LAMBDA e : e.name = "ack")

\* C16: every battlemap command that carries an acknowledgement callback is
\* answered exactly once, to its issuer, with ok, with a not-found error
\* (malformed or unknown battlemap id, unknown cover id) or with forbidden; a
\* command without a callback is not answered; on a not-found answer the
\* scene store is unchanged.
C16_ExplicitOutcome ==
  [][op'.name \in BattlemapCommands
       => IF op'.ack
          THEN /\ Len(Acks(emitted')) = 1
               /\ Acks(emitted')[1].to = ToSelf(op'.conn)
               /\ \/ Acks(emitted')[1].data.ok
                  \/ Acks(emitted')[1].data.error \in NotFoundErrors \cup {"forbidden"}
               /\ (~Acks(emitted')[1].data.ok /\ Acks(emitted')[1].data.error \in NotFoundErrors)
                    => UNCHANGED sceneVars
          ELSE Len(Acks(emitted')) = 0 ]_vars

\* an authorized update-cover of an existing battlemap named a cover it does
\* not hold and was answered cover-not-found
C16_Witness ==
  /\ op.name = "battlemap:update-cover"
  /\ op.ack
  /\ emitted = << Event("ack", ToSelf(op.conn), [ok |-> FALSE, error |-> "cover-not-found"]) >>

\* what a scene broadcast says, compared with the store after the handler
DescribesAppliedState(e) ==
  CASE e.name = "battlemap:list" -> e.data = BattlemapSummaries(battlemapState')
    [] e.name = "battlemap:active" -> e.data.battlemapId = battlemapState'.activeBattlemapId
    [] e.name = "battlemap:updated" ->
         /\ e.data.id \in DOMAIN battlemapState'.maps
         /\ e.data = serializeBattlemap(battlemapState'.maps[e.data.id])
    [] e.name = "battlemap:deleted" -> e.data.battlemapId \notin DOMAIN battlemapState'.maps
    [] OTHER -> FALSE

\* C17: a battlemap command answered ok:false (forbidden or not-found) emits
\* nothing but that answer to its issuer and leaves the scene store as it
\* was; every event a battlemap command sends beyond its issuer describes the
\* store as it is once the handler has run.
C17_RejectedIsInvisible ==
  [][op'.name \in BattlemapCommands
       => /\ (\E i \in 1..Len(emitted') :
                emitted'[i].name = "ack" /\ ~emitted'[i].data.ok)
               => /\ \A i \in 1..Len(emitted') : emitted'[i].to = ToSelf(op'.conn)
                  /\ UNCHANGED sceneVars
          /\ \A i \in 1..Len(emitted') :
               emitted'[i].to # ToSelf(op'.conn) => DescribesAppliedState(emitted'[i]) ]_vars

\* a rename of a battlemap the store does not hold was answered
\* battlemap-not-found and nothing else was emitted
C17_Witness ==
  /\ op.name = "battlemap:rename"
  /\ op.ack
  /\ emitted = << Event("ack", ToSelf(op.conn), [ok |-> FALSE, error |-> "battlemap-not-found"]) >>
  /\ DOMAIN battlemapState.maps # {}

(***************************************************************************)
(* Claims: token updates                                                   *)
(***************************************************************************)
TokenUpdates == {"position-update", "token-image-update"}

\* C18 (as claimed): every position or image update that was applied to a
\* token is broadcast to all connections, its sender included
C18_EchoToSender ==
  [][(op'.name \in TokenUpdates /\ users' # users)
       => \E i \in 1..Len(emitted') : emitted'[i].to = ToAll]_vars

\* C19 (as claimed): a position or image update issued by a connection
\* without mutation authority changes no token but the issuer's own and
\* broadcasts nothing about any other token
C19_OwnTokenOrAuthority ==
  [][\A c \in Conns :
       (op'.name \in TokenUpdates /\ op'.conn = c /\ ~HasAuthority(c))
       => /\ \A k \in MapKeys(users) \ {SocketId(c)} :
               MapHas(users', k) /\ MapGet(users', k) = MapGet(users, k)
          /\ \A i \in 1..Len(emitted') : emitted'[i].data.userId = SocketId(c)]_vars

PositionInBounds(p) ==
  IF p = NullPosition THEN FALSE
  ELSE 0 <= p.x /\ p.x <= PercentMax /\ 0 <= p.y /\ p.y <= PercentMax

\* C20 (as claimed): every entry of the active registry and of the
\* Resurrection Cache has a position with 0 <= x <= 100 and 0 <= y <= 100
C20_PositionBounds ==
  /\ \A k \in MapKeys(users) : PositionInBounds(MapGet(users, k).position)
  /\ \A pid \in DOMAIN disconnectedUsers : PositionInBounds(disconnectedUsers[pid].position)

(***************************************************************************)
(* Claims: suppressed presence                                             *)
(***************************************************************************)
PresenceEvents == {"user-joined", "user-reconnected", "user-disconnected"}

\* C26: an honored identify that carries suppressPresence adds nothing to the
\* active registry or the display registry and emits nothing, and leaves the
\* connection with the authority its payload gives it; a connection whose
\* presence is suppressed is never in the active registry; its disconnect
\* leaves registry and cache as they are and emits nothing.
C26_SuppressedIsInvisible ==
  [][\A c \in Conns :
       /\ (~identificationReceived[c] /\ op'.name = "user-identify" /\ op'.conn = c)
            => \A data \in IdentifyPayloads :
                 (data.suppressPresence /\ UserIdentify(c, data))
                 => /\ users' = users
                    /\ displayModeUsers' = displayModeUsers
                    /\ \A i \in 1..Len(emitted') : emitted'[i].name \notin PresenceEvents
                    /\ emitted' = <<>>
                    /\ userData'[c] # NoUserData
                    /\ userData'[c].allowBattlemapMutations = ExpectedAuthority(data)
       /\ (userData'[c] # NoUserData /\ userData'[c].suppressPresence)
            => ~MapHas(users', SocketId(c))
       /\ ( /\ op'.name = "disconnect" /\ op'.conn = c
            /\ userData[c] # NoUserData /\ userData[c].suppressPresence )
            => /\ users' = users
               /\ disconnectedUsers' = disconnectedUsers
               /\ emitted' = <<>> ]_vars

\* a connection has just identified with suppressPresence and with mutation
\* authority while another participant is registered: nothing was emitted
\* and the registry still holds the other participant only
C26_Witness ==
  /\ op.name = "user-identify"
  /\ userData[op.conn] # NoUserData
  /\ userData[op.conn].suppressPresence
  /\ userData[op.conn].allowBattlemapMutations
  /\ emitted = <<>>
  /\ Len(users) = 1
  /\ ~MapHas(users, SocketId(op.conn))

(***************************************************************************)
(* Claims: disconnect                                                      *)
(***************************************************************************)
\* C27: when a participant that is in the active registry disconnects, its
\* entry leaves the registry (the others stay), the Resurrection Cache gets
\* an entry under its persistent id with the color, position and imageSrc it
\* had, and exactly one user-disconnected carrying them goes to the other
\* connections; when a display viewer disconnects, registry and cache are
\* unchanged and nothing is emitted.
C27_DisconnectMovesToCache ==
  [][\A c \in Conns :
       (op'.name = "disconnect" /\ op'.conn = c /\ connState[c] = "open")
       => /\ MapHas(users, SocketId(c))
               => LET u == MapGet(users, SocketId(c))
                      P == u.persistentUserId
                  IN /\ ~MapHas(users', SocketId(c))
                     /\ MapKeys(users') = MapKeys(users) \ {SocketId(c)}
                     /\ \A k \in MapKeys(users') : MapGet(users', k) = MapGet(users, k)
                     /\ P \in DOMAIN disconnectedUsers'
                     /\ disconnectedUsers'[P].persistentUserId = P
                     /\ disconnectedUsers'[P].color = u.color
                     /\ disconnectedUsers'[P].position = u.position
                     /\ disconnectedUsers'[P].imageSrc = u.imageSrc
                     /\ \A Q \in DOMAIN disconnectedUsers \ {P} :
                          Q \in DOMAIN disconnectedUsers'
                          /\ disconnectedUsers'[Q] = disconnectedUsers[Q]
                     /\ emitted' = << Event("user-disconnected", ToOthers(c),
                                        [userId |-> SocketId(c), persistentUserId |-> P,
                                         color |-> u.color, position |-> u.position,
                                         imageSrc |-> u.imageSrc]) >>
          /\ (userData[c] # NoUserData /\ userData[c].isDisplay)
               => /\ users' = users
                  /\ disconnectedUsers' = disconnectedUsers
                  /\ emitted' = <<>> ]_vars

\* a participant whose token had been moved and given an image disconnected
\* while a display viewer is connected: the cache holds the moved position
\* and the image
C27_Witness ==
  /\ op.name = "disconnect"
  /\ CountEvents(emitted, "user-disconnected") = 1
  /\ displayModeUsers # {}
  /\ \E P \in DOMAIN disconnectedUsers :
       /\ disconnectedUsers[P].position # DefaultPosition
       /\ disconnectedUsers[P].imageSrc # NoImage

(***************************************************************************)
(* Claims: resurrection cache discipline                                   *)
(***************************************************************************)
\* C28: every cache entry sits under its own persistent id (one entry per
\* id); an honored identify that presents P leaves no entry for P; and an
\* entry for P leaves the cache only in a step that is an honored identify
\* presenting P or an accepted remove-token for P.
C28_CacheDiscipline ==
  [][/\ \A P \in DOMAIN disconnectedUsers' : disconnectedUsers'[P].persistentUserId = P
     /\ \A P \in AllPids :
          /\ ( /\ op'.name = "user-identify" /\ op'.persistentUserId = P
               /\ ~identificationReceived[op'.conn] )
               => P \notin DOMAIN disconnectedUsers'
          /\ (P \in DOMAIN disconnectedUsers /\ P \notin DOMAIN disconnectedUsers')
               => \/ /\ op'.name = "user-identify" /\ op'.persistentUserId = P
                     /\ ~identificationReceived[op'.conn]
                  \/ /\ op'.name = "remove-token" /\ op'.persistentUserId = P
                     /\ isDisplayUser(op'.conn) ]_vars

\* an identify presenting a cached persistent id was honored: the entry is
\* gone and the reconnect was announced
C28_Witness ==
  /\ op.name = "user-identify"
  /\ op.persistentUserId \in ClientPids
  /\ CountEvents(emitted, "user-reconnected") = 1
  /\ DOMAIN disconnectedUsers = {}
  /\ MapHas(users, SocketId(op.conn))

(***************************************************************************)
(* Claims: legacy cover commands                                           *)
(***************************************************************************)
LegacyCoverCommands == {"add-cover", "update-cover", "remove-cover"}
LegacyCoverEvents == {"cover-added", "cover-updated", "cover-removed"}

\* C29 (as claimed): a legacy cover command issued by a connection without
\* mutation authority, or not yet identified, leaves the legacy cover store
\* unchanged and emits no cover-added, cover-updated or cover-removed
C29_LegacyCoversNeedAuthority ==
  [][\A c \in Conns :
       (op'.name \in LegacyCoverCommands /\ op'.conn = c /\ ~HasAuthority(c))
       => /\ covers' = covers
          /\ \A i \in 1..Len(emitted') : emitted'[i].name \notin LegacyCoverEvents]_vars

(***************************************************************************)
(* Claims: add-token                                                       *)
(***************************************************************************)
\* every id and persistent id the active registry holds
RegistryIds(m) == MapKeys(m) \cup {m[i].value.persistentUserId : i \in 1..Len(m)}

\* C30 (as claimed): add-token is acknowledged to its issuer with the new
\* token id, and the other connections get the token-added broadcast
C30_AddTokenAcknowledged ==
  [][op'.name = "add-token"
       => /\ \E i \in 1..Len(emitted') :
               emitted'[i].name = "ack" /\ emitted'[i].to = ToSelf(op'.conn)
          /\ \E i \in 1..Len(emitted') :
               emitted'[i].name = "token-added" /\ emitted'[i].to # ToSelf(op'.conn)]_vars

\* C30 (amended): add-token adds exactly one entry to the active registry,
\* under an id and with a persistent id that no entry had, with isDisplay
\* false and no authority field, with the color and position of the payload
\* (a drawn color and { x: 50, y: 50 } when absent); every other entry and
\* the cache are untouched; the only event is one token-added to all
\* connections, the issuer included, carrying the id, persistent id, color
\* and position of the new entry; no acknowledgement is sent.
C30_AddToken ==
  [][\A c \in Conns, col \in Colors \cup {""}, p \in PositionInputs :
       (op'.name = "add-token" /\ op'.conn = c /\ AddToken(c, col, p))
       => LET added == MapKeys(users') \ MapKeys(users)
          IN /\ Cardinality(added) = 1
             /\ MapKeys(users) \subseteq MapKeys(users')
             /\ \A k \in MapKeys(users) : MapGet(users', k) = MapGet(users, k)
             /\ disconnectedUsers' = disconnectedUsers
             /\ \A k \in added :
                  LET t == MapGet(users', k)
                  IN /\ t.id = k
                     /\ k \notin RegistryIds(users)
                     /\ t.persistentUserId \notin RegistryIds(users) \cup {k}
                     /\ ~t.isDisplay
                     /\ "allowBattlemapMutations" \notin DOMAIN t
                     /\ t.color = IF col # "" THEN col ELSE t.color
                     /\ t.color \in Colors
                     /\ t.position = IF p # NullPosition THEN p ELSE [x |-> 50, y |-> 50]
                     /\ emitted' = << Event("token-added", ToAll,
                                        [userId |-> k,
                                         persistentUserId |-> t.persistentUserId,
                                         color |-> t.color, position |-> t.position]) >>]_vars

\* a token without a position was spawned while a participant is registered
C30_Witness ==
  /\ op.name = "add-token"
  /\ CountEvents(emitted, "token-added") = 1
  /\ Len(users) = 2
  /\ \E k \in MapKeys(users) : k[1] = "token" /\ MapGet(users, k).position.x = 50

(***************************************************************************)
(* Write-behind persistence                                                *)
(***************************************************************************)
\* the closure each persisting command hands to runBackgroundTask
TaskKindOf ==
  [n \in {"battlemap:create", "battlemap:rename", "battlemap:delete",
          "battlemap:add-cover", "battlemap:remove-cover"} |->
     CASE n = "battlemap:create" -> "insertBattlemapRow"
       [] n = "battlemap:rename" -> "updateBattlemapRow"
       [] n = "battlemap:delete" -> "deleteBattlemap"
       [] n = "battlemap:add-cover" -> "upsertCoverRow"
       [] n = "battlemap:remove-cover" -> "deleteCoverRow"]

AcceptedMutation ==
  /\ op'.name \in DOMAIN TaskKindOf
  /\ emitted' # <<>>
  /\ emitted'[1].name = "ack" /\ emitted'[1].data.ok

StoredRowsUnchanged ==
  /\ storage'.battlemaps = storage.battlemaps
  /\ storage'.covers = storage.covers

\* C21: a failed background write changes nothing but the set of requests
\* in flight: the scene store keeps the mutated value, the tables stay as
\* they were, no event or acknowledgement is emitted and no client hears of
\* it, and the failed request is neither scheduled nor sent again (at most
\* the next request of the same closure is sent).
C21_FailureIsLoggedOnly ==
  [][op'.name = "write-failed" =>
       /\ UNCHANGED <<sceneVars, presenceVars, clients>>
       /\ StoredRowsUnchanged
       /\ emitted' = <<>>
       /\ storage'.scheduled = storage.scheduled
       /\ \E i \in 1..Len(storage.inflight) :
            /\ storage'.inflight \in
                 { RemoveAt(storage.inflight, i),
                   RemoveAt(storage.inflight, i) \o Continuation(storage.inflight[i]) }
            /\ \A j \in 1..Len(storage'.inflight) :
                 j > Len(storage.inflight) - 1 =>
                   storage'.inflight[j] # storage.inflight[i]]_vars

\* the rename of the seeded battlemap was acknowledged and its only write
\* failed: memory says " Cave " trimmed, the table still says the old name
C21_Witness ==
  /\ op.name = "write-failed"
  /\ PendingWrites(storage) = 0
  /\ BattlemapId(1) \in DOMAIN battlemapState.maps
  /\ battlemapState.maps[BattlemapId(1)].name = "Cave"
  /\ storage.battlemaps = << SeedRow >>

\* C22: the handler of an accepted mutation has changed the store and has
\* emitted the acknowledgement (first) and the broadcasts when it ends, and
\* all it did about the durable write is queue the closure: no request was
\* sent, the tables are untouched, and the writes that were pending before
\* are still pending.
C22_ApplyAckThenPersist ==
  [][AcceptedMutation =>
       /\ StoredRowsUnchanged
       /\ storage'.inflight = storage.inflight
       /\ Len(storage'.scheduled) = Len(storage.scheduled) + 1
       /\ storage'.scheduled[Len(storage'.scheduled)].kind = TaskKindOf[op'.name]
       /\ op'.name = "battlemap:create" =>
            LET task == storage'.scheduled[Len(storage'.scheduled)]
            IN /\ task.battlemapId \in DOMAIN battlemapState'.maps
               /\ task.row = BattlemapRow(battlemapState'.maps[task.battlemapId])
               /\ \E i \in 2..Len(emitted') : emitted'[i].name = "battlemap:updated"]_vars

\* a create was acknowledged while an earlier write was still in flight
C22_Witness ==
  /\ op.name = "battlemap:create"
  /\ emitted # <<>> /\ emitted[1].name = "ack" /\ emitted[1].data.ok
  /\ storage.inflight # <<>>
  /\ storage.scheduled # <<>>
  /\ storage.scheduled[Len(storage.scheduled)].kind = "insertBattlemapRow"

\* the rows a store that mirrors the scene store holds
MirrorBattlemaps(bs) == {BattlemapRow(bs.maps[id]) : id \in DOMAIN bs.maps}
MirrorCovers(bs) ==
  UNION { {CoverRow(id, bs.maps[id].covers[k]) : k \in DOMAIN bs.maps[id].covers} :
            id \in DOMAIN bs.maps }
Mirrors(st, bs) ==
  /\ {st.battlemaps[i] : i \in 1..Len(st.battlemaps)} = MirrorBattlemaps(bs)
  /\ {st.covers[k] : k \in DOMAIN st.covers} = MirrorCovers(bs)

\* C23: when every write succeeds, whenever no write is scheduled or in
\* flight the stored battlemap rows and cover rows are exactly those of the
\* scene store.
C23_DurableMirror ==
  PendingWrites(storage) = 0 => Mirrors(storage, battlemapState)

(***************************************************************************)
(* Boot                                                                    *)
(***************************************************************************)
StoredRowSet(st) == {st.battlemaps[i] : i \in 1..Len(st.battlemaps)}

\* C24: a connection is only ever accepted by a process whose load has
\* succeeded; a load in which the select of battlemaps, the seeding insert or
\* the select of covers fails ends in an exited process that loaded nothing
\* and never takes a connection; a load that finds no battlemap row inserts
\* exactly the one default row (a load that finds rows inserts none); and
\* after a successful load the store holds exactly the stored battlemaps and
\* the active id is the first battlemap carrying the default map path if
\* there is one, else the first battlemap.
C24_BootContract ==
  [][/\ (\E c \in Conns : connState'[c] # "new") => process' = "listening"
     /\ process = "exited" => process' = "exited" /\ UNCHANGED <<presenceVars, sceneVars>>
     /\ process = "listening" => process' = "listening"
     /\ op'.name = "load" =>
          /\ process = "booting"
          /\ process' = IF op'.failed = "none" THEN "listening" ELSE "exited"
          /\ op'.failed # "none" => battlemapState' = battlemapState
          /\ op'.failed \in {"none", "covers"} =>
               storage'.battlemaps = IF storage.battlemaps = <<>> THEN << SeedRow >>
                                     ELSE storage.battlemaps
          /\ op'.failed \in {"battlemaps", "seed"} => storage' = storage
          /\ storage'.covers = storage.covers
          /\ op'.failed = "none" =>
               /\ battlemapState'.order =
                    [i \in 1..Len(storage'.battlemaps) |-> storage'.battlemaps[i].id]
               /\ DOMAIN battlemapState'.maps = {r.id : r \in StoredRowSet(storage')}
               /\ storage.battlemaps = <<>> =>
                    /\ Len(battlemapState'.order) = 1
                    /\ BattlemapRow(battlemapState'.maps[battlemapState'.order[1]]) = SeedRow
               /\ battlemapState'.activeBattlemapId \in DOMAIN battlemapState'.maps
               /\ battlemapState'.activeBattlemapId = ExpectedFallback(battlemapState')]_vars

\* the tables were empty, the load seeded them and a socket has connected
C24_Witness ==
  /\ process = "listening"
  /\ op.name = "connection"
  /\ storage.battlemaps = << SeedRow >>
  /\ battlemapState.order = << SeedRow.id >>
  /\ battlemapState.activeBattlemapId = SeedRow.id

(***************************************************************************)
(* Convergence of the browsers' token positions                            *)
(***************************************************************************)
Quiescent ==
  \A c \in Conns : clients[c].down = <<>> /\ clients[c].up = <<>>

\* what browser c shows for the token stored under key t agrees with pos
ShowsAt(c, t, pos) ==
  /\ (clients[c].myUserId # NoPid /\ t = clients[c].myUserId) =>
       clients[c].myPosition = pos
  /\ (t # clients[c].myUserId /\ MapHas(clients[c].otherUsers, t)) =>
       MapGet(clients[c].otherUsers, t).position = pos

\* C25: when no message and no event is in flight, every connected browser
\* shows every token it has on its board at the position the server stores
\* for that token.
C25_Convergence ==
  Quiescent =>
    \A c \in Conns : connState[c] = "open" =>
      \A i \in 1..Len(users) : ShowsAt(c, users[i].key, users[i].value.position)

(***************************************************************************)
(* Purge is terminal                                                       *)
(***************************************************************************)
\* connection c identified as an announced participant and its registry
\* entry is gone: only remove-token takes the entry of a connection whose
\* userData is still set
Purged(c) ==
  /\ userData[c] # NoUserData
  /\ ~userData[c].isDisplay /\ ~userData[c].suppressPresence
  /\ ~MapHas(users, SocketId(c))

ActiveCount(m, pid) == Cardinality(UsersWithPid(m, pid))

\* C31: once remove-token has taken a connected participant's registry
\* entry, no position update, image update, identify, grace timer or
\* disconnect of that connection puts an entry under its socket id back into
\* the registry or adds an entry to the resurrection cache (an update that
\* targets its own id changes nothing at all); and the number of registry
\* entries carrying a cached persistentId only grows in a user-identify step
\* that presents that persistentId.
C31_PurgeIsTerminal ==
  [][/\ \A c \in Conns :
          (Purged(c) /\ op'.conn = c
           /\ op'.name \in {"position-update", "token-image-update", "user-identify",
                            "identify-timeout", "disconnect"}) =>
            /\ ~MapHas(users', SocketId(c))
            /\ DOMAIN disconnectedUsers' \subseteq DOMAIN disconnectedUsers
            /\ \A p \in Positions : PositionUpdate(c, SocketId(c), p) => users' = users
            /\ \A img \in Images \cup {NoImage} :
                 TokenImageUpdate(c, SocketId(c), img) => users' = users
     /\ \A pid \in DOMAIN disconnectedUsers :
          ActiveCount(users', pid) > ActiveCount(users, pid) =>
            op'.name = "user-identify" /\ op'.persistentUserId = pid]_vars

\* a purged participant has just sent a position update and is still absent
\* from the registry and from the resurrection cache
C31_Witness ==
  /\ op.name = "position-update"
  /\ Purged(op.conn)
  /\ connState[op.conn] = "open"
  /\ userData[op.conn].persistentUserId \notin DOMAIN disconnectedUsers

(***************************************************************************)
(* Grid data                                                               *)
(***************************************************************************)
LinesAgree(gridData) ==
  (gridData.verticalLines = <<>>) <=> (gridData.horizontalLines = <<>>)

GridShape(bs) == \A id \in DOMAIN bs.maps : LinesAgree(bs.maps[id].gridData)

\* the command reaches its effect: the socket has authority and the
\* battlemap exists
Reaches(c, battlemapId) ==
  /\ HasAuthority(c)
  /\ battlemapId # NoBattlemapId /\ battlemapId \in DOMAIN battlemapState.maps

C33_UpdateMapPathResetsGrid ==
  [][\A c \in Conns, ack \in BOOLEAN, b \in DOMAIN battlemapState.maps,
        m \in MapPathInputs \cup {"  "} :
       (Reaches(c, b) /\ BattlemapUpdateMapPath(c, ack, b, m)) =>
         LET old == battlemapState.maps[b]
             new == battlemapState'.maps[b]
         IN /\ new.mapPath = CASE m = NoString -> NoPath
                               [] m = "  " -> NoPath
                               [] m = " /maps/b.png " -> "/maps/b.png"
                               [] OTHER -> m
            /\ new.gridData = createDefaultGridData
            /\ new.id = old.id /\ new.name = old.name
            /\ new.gridScale = old.gridScale
            /\ new.gridOffsetX = old.gridOffsetX /\ new.gridOffsetY = old.gridOffsetY
            /\ new.covers = old.covers
            /\ DOMAIN battlemapState'.maps = DOMAIN battlemapState.maps
            /\ \A other \in DOMAIN battlemapState.maps \ {b} :
                 battlemapState'.maps[other] = battlemapState.maps[other]
            /\ battlemapState'.order = battlemapState.order
            /\ battlemapState'.activeBattlemapId = battlemapState.activeBattlemapId]_vars

\* an accepted update-map-path has just given a new path to a battlemap with
\* a changed scale and a cover while the other battlemap keeps a grid of its
\* own
C33_Witness ==
  /\ op.name = "battlemap:update-map-path"
  /\ \E i \in 1..Len(emitted) : emitted[i].name = "battlemap:updated"
  /\ \E b, other \in DOMAIN battlemapState.maps :
       /\ battlemapState.maps[b].mapPath = "/maps/b.png"
       /\ battlemapState.maps[b].gridData = createDefaultGridData
       /\ battlemapState.maps[b].gridScale = 2
       /\ DOMAIN battlemapState.maps[b].covers # {}
       /\ battlemapState.maps[other].gridData.verticalLines = <<10>>

(***************************************************************************)
(* Update-cover                                                            *)
(***************************************************************************)
\* the update supplies a numeric width and nothing else (an id apart)
WidthOnly(u) ==
  /\ IsNumber(u.width)
  /\ u.x = Absent /\ u.y = Absent /\ u.height = Absent /\ u.color = NoColor

\* C34: an accepted battlemap:update-cover of cover k keeps the set of cover
\* ids and every other cover, and leaves under k a cover with id k whatever
\* id the payload carries. With only a new width, y, height and color stay,
\* width is the new value clamped to [0,100] and x is the smaller of the old
\* x and 100 minus that width. In general each field is the supplied value,
\* or the existing one where none is supplied, put through the clamps: sizes
\* to [0,100] (0 for a non-number), x to [0,100-width], y to [0,100-height],
\* the default color for a blank one.
C34_UpdateCoverMerges ==
  [][op'.name = "battlemap:update-cover" =>
      \A b \in DOMAIN battlemapState.maps, k \in ClientCoverIds, u \in CoverIdUpdates :
       (/\ Reaches(op'.conn, b) /\ k \in DOMAIN battlemapState.maps[b].covers
        /\ BattlemapUpdateCover(op'.conn, op'.ack, b, k, u)) =>
         LET old == battlemapState.maps[b].covers[k]
             new == battlemapState'.maps[b].covers[k]
             given(supplied, existing) == IF supplied = Absent THEN existing ELSE supplied
             size(v) == IF IsNumber(v) THEN Min(Max(v, 0), PercentMax) ELSE 0
             start(v, room) == IF IsNumber(v) THEN Min(Max(v, 0), room) ELSE 0
         IN /\ DOMAIN battlemapState'.maps[b].covers = DOMAIN battlemapState.maps[b].covers
            /\ \A other \in DOMAIN battlemapState.maps[b].covers \ {k} :
                 battlemapState'.maps[b].covers[other] = battlemapState.maps[b].covers[other]
            /\ new.id = k /\ old.id = k
            /\ WidthOnly(u) =>
                 /\ new.y = old.y /\ new.height = old.height /\ new.color = old.color
                 /\ new.width = Min(Max(u.width, 0), PercentMax)
                 /\ new.x = Min(old.x, PercentMax - new.width)
            /\ new.width = size(given(u.width, old.width))
            /\ new.height = size(given(u.height, old.height))
            /\ new.x = start(given(u.x, old.x), PercentMax - new.width)
            /\ new.y = start(given(u.y, old.y), PercentMax - new.height)
            /\ new.color = IF u.color = NoColor THEN old.color
                           ELSE IF u.color = "" THEN DefaultCoverColor ELSE u.color]_vars

\* a blue cover at x = 60 of width 40 has just been widened by a payload that
\* carries another id and the width 70: it sits at x = 30 under its own id
C34_Witness ==
  /\ op.name = "battlemap:update-cover"
  /\ \E i \in 1..Len(emitted) : emitted[i].name = "battlemap:updated"
  /\ \E b \in DOMAIN battlemapState.maps :
       /\ DOMAIN battlemapState.maps[b].covers = {CoverId(1)}
       /\ battlemapState.maps[b].covers[CoverId(1)].id = CoverId(1)
       /\ battlemapState.maps[b].covers[CoverId(1)].width = 70
       /\ battlemapState.maps[b].covers[CoverId(1)].x = 30
       /\ battlemapState.maps[b].covers[CoverId(1)].color = "#0000ff"

(***************************************************************************)
(* Ghost presences                                                         *)
(***************************************************************************)
\* C35: every registry entry stored under a socket id belongs to a
\* connection that is still open; and when the grace timer of a connection
\* that has already closed fires, no entry stands under its socket id and no
\* user-joined is sent.
C35_NoGhostPresences ==
  /\ \A c \in Conns : MapHas(users, SocketId(c)) => connState[c] = "open"
  /\ (op.name = "identify-timeout" /\ connState[op.conn] = "closed") =>
       /\ ~MapHas(users, SocketId(op.conn))
       /\ CountEvents(emitted, "user-joined") = 0

(***************************************************************************)
(* One place per persistentId                                              *)
(***************************************************************************)
\* C36: no persistentId is carried both by a registry entry and by a
\* resurrection cache entry, and no two registry entries carry the same
\* persistentId.
C36_OnePlacePerPid ==
  \A pid \in AllPids :
    /\ ~(pid \in DOMAIN disconnectedUsers /\ UsersWithPid(users, pid) # {})
    /\ Cardinality(UsersWithPid(users, pid)) <= 1

(***************************************************************************)
(* Registry order                                                          *)
(***************************************************************************)
IsOrderOf(order, ids) ==
  /\ {order[i] : i \in 1..Len(order)} = ids
  /\ \A i, j \in 1..Len(order) : order[i] = order[j] => i = j

\* C37: once the server listens, the order lists each id of the battlemap
\* map exactly once and nothing else; a step that adds ids to the map adds
\* them at the end of the order, and every step leaves the ids that survive
\* in the order they had.
C37_OrderMatchesMaps ==
  /\ process = "listening" =>
       IsOrderOf(battlemapState.order, DOMAIN battlemapState.maps)
  /\ [][LET before == battlemapState.order
            after == battlemapState'.order
            surviving == DOMAIN battlemapState.maps \cap DOMAIN battlemapState'.maps
            deleted == DOMAIN battlemapState.maps \ DOMAIN battlemapState'.maps
        IN /\ IsOrderOf(after, DOMAIN battlemapState'.maps)
           /\ SelectSeq(after, LAMBDA id : id \in surviving)
                = SelectSeq(before, LAMBDA id : id \in surviving)
           /\ op'.name = "battlemap:create" =>
                /\ deleted = {}
                /\ SubSeq(after, 1, Len(before)) = before
           /\ op'.name = "battlemap:delete" =>
                /\ DOMAIN battlemapState'.maps \subseteq DOMAIN battlemapState.maps
                /\ Cardinality(deleted) <= 1
                /\ after = SelectSeq(before, LAMBDA id : id \notin deleted)
           /\ op'.name \notin {"battlemap:create", "battlemap:delete"} =>
                after = before]_vars

\* a battlemap created after boot has outlived the deletion of one that
\* stood before it in the order
C37_Witness ==
  /\ op.name = "battlemap:delete"
  /\ \E i \in 1..Len(emitted) : emitted[i].name = "battlemap:deleted"
  /\ battlemapState.order = << BattlemapId(2), BattlemapId(3) >>

(***************************************************************************)
(* Background writes start in mutation order                               *)
(***************************************************************************)
SameClosure(task, other) ==
  /\ task.kind = other.kind
  /\ task.battlemapId = other.battlemapId /\ task.coverId = other.coverId

\* a closure still queued will write to the battlemap row of this request
LaterBattlemapWrite(scheduled, r) ==
  \E i \in 1..Len(scheduled) :
    /\ scheduled[i].battlemapId = r.battlemapId
    /\ scheduled[i].kind \in {"insertBattlemapRow", "updateBattlemapRow", "deleteBattlemap"}

\* a closure still queued will write to the cover row of this request
LaterCoverWrite(scheduled, r) ==
  \E i \in 1..Len(scheduled) :
    \/ scheduled[i].kind \in {"upsertCoverRow", "deleteCoverRow"}
       /\ scheduled[i].coverId = r.coverId
    \/ scheduled[i].kind = "deleteBattlemap" /\ scheduled[i].battlemapId = r.battlemapId

\* C38: an accepted mutation puts its closure behind every closure queued
\* before it, the closure that starts is always the oldest one queued, and no
\* other step touches the queue.  An updateBattlemapRow closure sends the
\* battlemap's fields as they are in memory when it starts and sends nothing
\* when the battlemap is gone.  Hence a battlemap write or cover upsert that
\* starts while no closure for the same entity is queued behind it carries
\* the entity's state in memory.
C38_WritesStartInMutationOrder ==
  [][LET queued == storage.scheduled
         started == IF Len(storage'.inflight) > Len(storage.inflight)
                    THEN << storage'.inflight[Len(storage'.inflight)] >> ELSE <<>>
     IN /\ AcceptedMutation =>
             /\ Len(storage'.scheduled) = Len(queued) + 1
             /\ \A i \in 1..Len(queued) : SameClosure(storage'.scheduled[i], queued[i])
             /\ storage'.scheduled[Len(queued) + 1].kind = TaskKindOf[op'.name]
        /\ op'.name = "background-task" =>
             LET oldest == Head(queued)
                 maps == battlemapState.maps
             IN /\ storage'.scheduled = Tail(queued)
                /\ Len(started) = 1 =>
                     /\ started[1].battlemapId = oldest.battlemapId
                     /\ started[1].coverId = oldest.coverId
                     /\ storage'.inflight = Append(storage.inflight, started[1])
                /\ oldest.kind = "updateBattlemapRow" =>
                     IF oldest.battlemapId \in DOMAIN maps
                     THEN /\ Len(started) = 1
                          /\ started[1].kind = "updateBattlemapRow"
                          /\ started[1].row = BattlemapRow(maps[oldest.battlemapId])
                     ELSE storage'.inflight = storage.inflight
                /\ oldest.kind # "updateBattlemapRow" => Len(started) = 1
                /\ (/\ oldest.kind \in {"insertBattlemapRow", "updateBattlemapRow"}
                    /\ oldest.battlemapId \in DOMAIN maps
                    /\ ~LaterBattlemapWrite(storage'.scheduled, oldest)) =>
                     started = << [oldest EXCEPT !.row = BattlemapRow(maps[oldest.battlemapId])] >>
                /\ (/\ oldest.kind = "upsertCoverRow"
                    /\ ~LaterCoverWrite(storage'.scheduled, oldest)) =>
                     /\ oldest.battlemapId \in DOMAIN maps
                     /\ oldest.coverId \in DOMAIN maps[oldest.battlemapId].covers
                     /\ started[1].row =
                          CoverRow(oldest.battlemapId, maps[oldest.battlemapId].covers[oldest.coverId])
        /\ (~AcceptedMutation /\ op'.name # "background-task") =>
             storage'.scheduled = queued]_vars

\* the first of two queued row updates of the renamed seeded battlemap has
\* just started and carries the name in memory, while the second still waits
C38_Witness ==
  /\ op.name = "background-task"
  /\ Len(storage.scheduled) = 1 /\ Len(storage.inflight) = 1
  /\ storage.scheduled[1].kind = "updateBattlemapRow"
  /\ storage.scheduled[1].battlemapId = BattlemapId(1)
  /\ storage.inflight[1].kind = "updateBattlemapRow"
  /\ storage.inflight[1].battlemapId = BattlemapId(1)
  /\ storage.inflight[1].row.name = "Untitled Battlemap"
  /\ battlemapState.maps[BattlemapId(1)].name = "Untitled Battlemap"
====
